---------------------------- MODULE Spec2Model ----------------------------
(***************************************************************************)
(* A model of the housekeeping / room-usage report generator (room.py).   *)
(*                                                                         *)
(* Text cells are sequences of one-character strings, so that trimming,    *)
(* date parsing, number parsing and ordering are computed character by     *)
(* character as the Python code computes them.  A pandas table is a record *)
(* [columns, rows]; a row is a function from column name to cell.          *)
(***************************************************************************)
EXTENDS Integers, Sequences, FiniteSets, TLC

(***************************************************************************)
(* Bounds of the model.                                                    *)
(***************************************************************************)
MaxRows == 3          \* longest free-form input table of a direct call
MaxSchemaRows == 1    \* longest table among those lacking a required column
MaxMainRows == 1      \* longest free-form table read by main
MaxActions == 401     \* largest total_actions given to the rate classifier
MaxFrames == 12       \* calls on the stack at which the interpreter gives up
MaxRotationRows == 2  \* longest log a rotation table is computed from
MaxRequests == 3      \* browser requests delivered to on_request in a session

(***************************************************************************)
(* Characters and text.                                                    *)
(***************************************************************************)
\* The rank of a character among the characters used by the inputs, which
\* are listed in ascending code-point order.
Code(c) ==
  LET CharTable ==
        << " ", ",", "-", ".", "/", "0", "1", "2", "3", "4", "5", "6", "7", "8",
           "9", ":", ";", "C", "D", "K", "O", "S", "U", "V", "a", "b", "c", "e",
           "g", "i", "k", "l", "n", "o", "r", "t", "u", "w", "y", "|" >>
  IN CHOOSE i \in 1..Len(CharTable) : CharTable[i] = c

Digits == <<"0", "1", "2", "3", "4", "5", "6", "7", "8", "9">>

IsDigit(c) == \E i \in 1..10 : Digits[i] = c

DigitVal(c) == (CHOOSE i \in 1..10 : Digits[i] = c) - 1

\* The missing value (float NaN / None) of a pandas cell: not a text.
NaN == <<"NaN">>

\* The missing timestamp / date.
NaT == <<"NaT">>

\* pd.isna
isna(x) == x = NaN \/ x = NaT

IsSpace(c) == c = " "

RECURSIVE LStrip(_)
LStrip(s) ==
  IF s = <<>> THEN s
  ELSE IF IsSpace(Head(s)) THEN LStrip(Tail(s)) ELSE s

RECURSIVE RStrip(_)
RStrip(s) ==
  IF s = <<>> THEN s
  ELSE IF IsSpace(s[Len(s)]) THEN RStrip(SubSeq(s, 1, Len(s) - 1)) ELSE s

\* str.strip()
Strip(s) == RStrip(LStrip(s))

\* A faulty variant of safe_str: the text is returned untrimmed.
safe_str_nostrip(x) == IF isna(x) THEN <<>> ELSE x

\* safe_str: "" for a missing value, else the trimmed text.
safe_str(x) == IF isna(x) THEN <<>> ELSE Strip(x)

\* Lexicographic order on sequences of integers (a proper prefix is smaller).
RECURSIVE LexLess(_, _)
LexLess(a, b) ==
  IF b = <<>> THEN FALSE
  ELSE IF a = <<>> THEN TRUE
  ELSE IF Head(a) < Head(b) THEN TRUE
  ELSE IF Head(a) > Head(b) THEN FALSE
  ELSE LexLess(Tail(a), Tail(b))

\* The code points of a text: the key under which Python orders it.
Codes(s) == [i \in 1..Len(s) |-> Code(s[i])]

\* s.split(sep) for a one-character separator.
RECURSIVE Split(_, _)
Split(s, sep) ==
  IF \A i \in 1..Len(s) : s[i] # sep THEN <<s>>
  ELSE LET k == CHOOSE i \in 1..Len(s) :
                  s[i] = sep /\ \A j \in 1..(i - 1) : s[j] # sep
       IN <<SubSeq(s, 1, k - 1)>> \o Split(SubSeq(s, k + 1, Len(s)), sep)

\* The value of a text of decimal digits.
RECURSIVE DecVal(_)
DecVal(s) ==
  IF s = <<>> THEN 0
  ELSE 10 * DecVal(SubSeq(s, 1, Len(s) - 1)) + DigitVal(s[Len(s)])

AllDigits(s) == s # <<>> /\ \A i \in 1..Len(s) : IsDigit(s[i])

(***************************************************************************)
(* Sequences: stable sorting and filtering.                                *)
(***************************************************************************)
\* The stable ascending sort of seq by keys (keys[i] is the key of seq[i],
\* a sequence of integers): position of i = 1 + number of elements before it.
SortByKeys(seq, keys) ==
  LET n == Len(seq)
      Before(j, i) == LexLess(keys[j], keys[i]) \/ (keys[j] = keys[i] /\ j < i)
      Rank(i) == 1 + Cardinality({j \in 1..n : Before(j, i)})
  IN [k \in 1..n |-> seq[CHOOSE i \in 1..n : Rank(i) = k]]

\* The outcomes of an ascending sort of seq by keys that is not stable
\* (sort_values by one column, kind="quicksort"): every arrangement in key
\* order; the order of elements with equal keys is not defined.
QuickSorted(seq, keys) ==
  LET n == Len(seq)
      orders == {p \in [1..n -> 1..n] :
                   /\ \A i, j \in 1..n : i # j => p[i] # p[j]
                   /\ \A k \in 1..(n - 1) : ~LexLess(keys[p[k + 1]], keys[p[k]])}
  IN {[k \in 1..n |-> seq[p[k]]] : p \in orders}

\* The elements of a finite set of texts in ascending order.
SortedTexts(S) ==
  LET Rank(x) == 1 + Cardinality({y \in S : LexLess(Codes(y), Codes(x))})
  IN [k \in 1..Cardinality(S) |-> CHOOSE x \in S : Rank(x) = k]

RECURSIVE SelectIdx(_, _)
\* The subsequence of seq at the indices of the set I, in order.
SelectIdx(seq, I) ==
  IF seq = <<>> THEN <<>>
  ELSE LET n == Len(seq)
           front == SelectIdx(SubSeq(seq, 1, n - 1), I)
       IN IF n \in I THEN Append(front, seq[n]) ELSE front

\* df.head(n)
Head_n(seq, n) == SubSeq(seq, 1, IF Len(seq) < n THEN Len(seq) ELSE n)

RECURSIVE SumSeq(_)
SumSeq(s) == IF s = <<>> THEN 0 ELSE Head(s) + SumSeq(Tail(s))

(***************************************************************************)
(* Parsing and rounding.                                                   *)
(***************************************************************************)
DaysInMonth(y, m) ==
  LET IsLeap == (y % 4 = 0 /\ y % 100 # 0) \/ y % 400 = 0
  IN IF m = 2 THEN (IF IsLeap THEN 29 ELSE 28)
     ELSE IF m \in {4, 6, 9, 11} THEN 30 ELSE 31

\* Whether the text is a field of the strptime directive: one or two digits
\* in the directive's range; %d (3[0-1]|[1-2]\d|0[1-9]|[1-9]| [1-9]) also
\* takes a blank before one digit.
IsField(s, directive) ==
  IF directive = "d" /\ Len(s) = 2 /\ s[1] = " "
  THEN IsDigit(s[2]) /\ s[2] # "0"
  ELSE /\ AllDigits(s)
       /\ Len(s) <= 2
       /\ DecVal(s) \in (CASE directive = "m" -> 1..12
                           [] directive = "d" -> 1..31
                           [] directive = "H" -> 0..23
                           [] directive = "M" -> 0..59)

\* The texts between runs of blanks (the format's blank matches \s+).
Words(s) == SelectSeq(Split(s, " "), LAMBDA w : w # <<>>)

\* One cell under format "%m/%d/%Y %H:%M", errors="coerce": the timestamp
\* <<year, month, day, hour, minute>>, or NaT when the text does not match
\* the format exactly, names no day of the calendar, or lies outside the
\* Timestamp range (1677-09-21 00:12:43.1 to 2262-04-11 23:47:16.8).
ParseTimestamp(s) ==
  IF isna(s) THEN NaT
  ELSE
  LET p == Split(s, "/") IN
  IF Len(p) # 3 \/ p[3] = <<>> THEN NaT
  ELSE
  LET rest == p[3]
      w == Words(rest) IN
  IF Len(w) # 2 \/ rest[1] = " " \/ rest[Len(rest)] = " " THEN NaT
  ELSE
  LET hm == Split(w[2], ":") IN
  IF Len(hm) # 2 THEN NaT
  ELSE IF ~(IsField(p[1], "m") /\ IsField(p[2], "d")
            /\ AllDigits(w[1]) /\ Len(w[1]) = 4
            /\ IsField(hm[1], "H") /\ IsField(hm[2], "M")) THEN NaT
  ELSE
  LET mo == DecVal(p[1])
      d == DecVal(LStrip(p[2]))
      y == DecVal(w[1])
      h == DecVal(hm[1])
      mi == DecVal(hm[2])
      ts == <<y, mo, d, h, mi>> IN
  IF y >= 1 /\ d <= DaysInMonth(y, mo)
     /\ ~LexLess(ts, <<1677, 9, 21, 0, 13>>)
     /\ ~LexLess(<<2262, 4, 11, 23, 47>>, ts)
  THEN ts
  ELSE NaT

\* coerce_datetime applied to one cell.
coerce_datetime(s) == ParseTimestamp(s)

\* The parts of a text as the parser of pd.to_numeric reads it: blanks
\* around it are skipped, then come an optional sign, a decimal, and an
\* optional exponent (e or E, optional sign, digits).  ok tells whether the
\* whole text is read.
NumberParts(s) ==
  LET t == Strip(s)
      signed == t # <<>> /\ t[1] \in {"-", "+"}
      body == IF signed THEN Tail(t) ELSE t
      marks == {k \in 1..Len(body) : body[k] \in {"e", "E"}}
      k == IF marks = {} THEN Len(body) + 1
           ELSE CHOOSE i \in marks : \A j \in marks : i <= j
      mant == SubSeq(body, 1, k - 1)
      ex == SubSeq(body, k + 1, Len(body))
      exsigned == ex # <<>> /\ ex[1] \in {"-", "+"}
      exdigits == IF exsigned THEN Tail(ex) ELSE ex
      \* an unsigned decimal text: digits, with at most one point among them
      IsDecimal(u) ==
        LET p == Split(u, ".")
        IN /\ Len(p) <= 2
           /\ \A i \in 1..Len(p) : \A j \in 1..Len(p[i]) : IsDigit(p[i][j])
           /\ \E i \in 1..Len(p) : p[i] # <<>>
  IN [ ok |-> IsDecimal(mant) /\ (marks = {} \/ AllDigits(exdigits)),
       neg |-> signed /\ t[1] = "-",
       mant |-> Split(mant, "."),
       exp |-> IF marks = {} \/ ~AllDigits(exdigits) THEN 0
               ELSE IF exsigned /\ ex[1] = "-" THEN 0 - DecVal(exdigits)
               ELSE DecVal(exdigits) ]

\* Whether pd.to_numeric reads a number from the cell; a missing cell or
\* any other text becomes NaN under errors="coerce".  (The word nan is read
\* as NaN too; inf and infinity have letters outside the alphabet.)
IsNumeric(s) == IF isna(s) THEN FALSE ELSE NumberParts(s).ok

\* floor(log2(n/d)) for positive n and d.
RECURSIVE FloorLog2(_, _)
FloorLog2(n, d) ==
  IF n >= 2 * d THEN FloorLog2(n, 2 * d) + 1
  ELSE IF n < d THEN FloorLog2(2 * n, d) - 1
  ELSE 0

RECURSIVE Pow2(_)
Pow2(k) == IF k = 0 THEN 1 ELSE 2 * Pow2(k - 1)

\* 2^e modulo D
RECURSIVE Pow2Mod(_, _)
Pow2Mod(e, D) == IF e = 0 THEN 1 % D ELSE (2 * Pow2Mod(e - 1, D)) % D

\* d without its factors of two.
RECURSIVE OddPart(_)
OddPart(d) == IF d % 2 = 0 THEN OddPart(d \div 2) ELSE d

\* The float division n/d (n, d > 0): where the binary double x of the
\* quotient lies, as the fraction num/den of the spacing of doubles at x by
\* which x exceeds n/d (negative: x is below; 0: the quotient is a double).
\* The 53-bit significand of x is n*2^e/D rounded to the nearest integer.
DoubleError(n, d) ==
  LET D == OddPart(d)
      e == 52 - FloorLog2(n, D)
      r == ((n % D) * Pow2Mod(e, D)) % D
  IN [num |-> IF 2 * r > D THEN D - r ELSE 0 - r, den |-> D]

\* Python's round(n/d, k) of a float, with scale = 10^k, in units of
\* 1/scale: the decimal nearest to the double x of n/d.  Off a decimal tie x
\* is on the side of n/d; at a tie x decides, and only a tie that is a
\* double goes to the even neighbour.
Round(n, d, scale) ==
  LET a == IF n < 0 THEN 0 - n ELSE n
      q == (scale * a) \div d
      r == (scale * a) % d
      v == IF 2 * r > d THEN q + 1
           ELSE IF 2 * r < d THEN q
           ELSE LET err == DoubleError(a, d).num
                IN IF err > 0 THEN q + 1
                   ELSE IF err < 0 THEN q
                   ELSE q + (q % 2)
  IN IF n < 0 THEN 0 - v ELSE v

\* Series.round(k) of n/d with scale = 10^k, in units of 1/scale: numpy's
\* rint(scale * x) of the double x of n/d.  Off a tie the product is on the
\* side of n/d.  At a tie q + 1/2 the product scale * x is a double again:
\* it is q + 1/2 itself, which rint rounds to the even neighbour, unless x
\* is off n/d by more than half the spacing of doubles at q + 1/2 (a
\* quarter below 1/2, where the spacing halves).
RoundDiv(n, d, scale) ==
  LET a == IF n < 0 THEN 0 - n ELSE n
      q == (scale * a) \div d
      r == (scale * a) % d
      v == IF 2 * r > d THEN q + 1
           ELSE IF 2 * r < d THEN q
           ELSE LET err == DoubleError(a, d)
                    size == IF err.num < 0 THEN 0 - err.num ELSE err.num
                    steps == FloorLog2(2 * q + 1, 2) - FloorLog2(a, d)
                    half == IF q = 0 /\ err.num < 0 THEN 4 ELSE 2
                IN IF half * scale * size > err.den * Pow2(steps)
                   THEN (IF err.num > 0 THEN q + 1 ELSE q)
                   ELSE q + (q % 2)
  IN IF n < 0 THEN 0 - v ELSE v

(***************************************************************************)
(* Float arithmetic: the numbers of the Number of Nights column are binary *)
(* doubles.  A natural number of any size is a sequence of limbs (digits   *)
(* of base 2^20), least significant first, without leading zero limbs; a   *)
(* double is [neg, m, e] with value m * 2^e, m of exactly 53 bits, or Zero.*)
(* Exponents stay far from the overflow and underflow of doubles.          *)
(***************************************************************************)
Limb == 1024 * 1024

RECURSIVE Norm(_)
Norm(a) ==
  IF a = <<>> THEN a
  ELSE IF a[Len(a)] = 0 THEN Norm(SubSeq(a, 1, Len(a) - 1)) ELSE a

\* a * k + c for k <= 1024
RECURSIVE MulSmall(_, _, _)
MulSmall(a, k, c) ==
  IF a = <<>> THEN (IF c = 0 THEN <<>> ELSE <<c>>)
  ELSE LET v == Head(a) * k + c
       IN <<v % Limb>> \o MulSmall(Tail(a), k, v \div Limb)

\* Quotient and remainder of a by n <= 1024.
RECURSIVE DivSmall(_, _)
DivSmall(a, n) ==
  IF a = <<>> THEN [q |-> <<>>, r |-> 0]
  ELSE LET hi == DivSmall(Tail(a), n)
           cur == hi.r * Limb + Head(a)
       IN [q |-> IF hi.q = <<>> /\ cur < n THEN <<>> ELSE <<cur \div n>> \o hi.q,
           r |-> cur % n]

\* a + b + c
RECURSIVE AddNat(_, _, _)
AddNat(a, b, c) ==
  IF a = <<>> /\ b = <<>> THEN (IF c = 0 THEN <<>> ELSE <<c>>)
  ELSE LET v == (IF a = <<>> THEN 0 ELSE Head(a))
                + (IF b = <<>> THEN 0 ELSE Head(b)) + c
       IN <<v % Limb>> \o AddNat(IF a = <<>> THEN a ELSE Tail(a),
                                 IF b = <<>> THEN b ELSE Tail(b), v \div Limb)

\* The limbs of a - b - c for a >= b + c (leading zero limbs are left).
RECURSIVE SubNat(_, _, _)
SubNat(a, b, c) ==
  IF a = <<>> THEN <<>>
  ELSE LET v == Head(a) - (IF b = <<>> THEN 0 ELSE Head(b)) - c
       IN <<(v + Limb) % Limb>>
            \o SubNat(Tail(a), IF b = <<>> THEN b ELSE Tail(b),
                      IF v < 0 THEN 1 ELSE 0)

NatLess(a, b) ==
  IF Len(a) # Len(b) THEN Len(a) < Len(b)
  ELSE LexLess([i \in 1..Len(a) |-> a[Len(a) + 1 - i]],
               [i \in 1..Len(b) |-> b[Len(b) + 1 - i]])

\* The number of bits of a.
Bits(a) ==
  IF a = <<>> THEN 0
  ELSE 20 * (Len(a) - 1) + FloorLog2(a[Len(a)], 1) + 1

\* a * 2^s
ShiftLeft(a, s) ==
  IF a = <<>> THEN a
  ELSE LET r == s % 20
           r1 == IF r < 10 THEN r ELSE 10
       IN [i \in 1..(s \div 20) |-> 0]
            \o MulSmall(MulSmall(a, Pow2(r1), 0), Pow2(r - r1), 0)

\* a \div 2^d, and whether a bit was lost.
ShiftRight(a, d) ==
  LET w == IF d \div 20 < Len(a) THEN d \div 20 ELSE Len(a)
      r1 == IF d % 20 < 10 THEN d % 20 ELSE 10
      Second(q1, q2) ==
        [q |-> q2.q,
         sticky |-> (\E i \in 1..w : a[i] # 0) \/ q1.r # 0 \/ q2.r # 0]
      First(q1) == Second(q1, DivSmall(q1.q, Pow2((d % 20) - r1)))
  IN First(DivSmall(SubSeq(a, w + 1, Len(a)), Pow2(r1)))

\* a / 2^d rounded to the nearest natural, a tie to the even one; sticky
\* tells that the number rounded is a little more than a / 2^d.
RoundShift(a, d, sticky) ==
  LET Nearest(s, h) ==
        IF h.r = 1 /\ (s.sticky \/ sticky \/ (h.q # <<>> /\ h.q[1] % 2 = 1))
        THEN AddNat(h.q, <<>>, 1) ELSE h.q
      Halved(s) == Nearest(s, DivSmall(s.q, 2))
  IN IF d <= 0 THEN ShiftLeft(a, 0 - d) ELSE Halved(ShiftRight(a, d - 1))

RECURSIVE Limbs(_)
Limbs(n) == IF n = 0 THEN <<>> ELSE <<n % Limb>> \o Limbs(n \div Limb)

RECURSIVE ToInt(_)
ToInt(a) == IF a = <<>> THEN 0 ELSE Head(a) + Limb * ToInt(Tail(a))

Zero == [neg |-> FALSE, m |-> <<>>, e |-> 0]

\* The double nearest to m * 2^e (a little more if sticky), ties to even.
Float(neg, m, e, sticky) ==
  LET Rounded(b, q) ==
        IF Bits(q) = 54
        THEN [neg |-> neg, m |-> DivSmall(q, 2).q, e |-> e + b - 52]
        ELSE [neg |-> neg, m |-> q, e |-> e + b - 53]
      Sized(b) ==
        IF b > 53 THEN Rounded(b, RoundShift(m, b - 53, sticky))
        ELSE [neg |-> neg, m |-> ShiftLeft(m, 53 - b), e |-> e - (53 - b)]
  IN IF m = <<>> THEN Zero ELSE Sized(Bits(m))

Neg(x) == IF x = Zero THEN x ELSE [x EXCEPT !.neg = ~@]

\* x + y
FAdd(x, y) ==
  LET e == IF x.e < y.e THEN x.e ELSE y.e
      Aligned(mx, my) ==
        IF x.neg = y.neg THEN [neg |-> x.neg, m |-> AddNat(mx, my, 0)]
        ELSE IF NatLess(mx, my)
        THEN [neg |-> y.neg, m |-> Norm(SubNat(my, mx, 0))]
        ELSE [neg |-> x.neg, m |-> Norm(SubNat(mx, my, 0))]
      Packed(r) == Float(r.neg, r.m, e, FALSE)
  IN IF x = Zero THEN y
     ELSE IF y = Zero THEN x
     ELSE Packed(Aligned(ShiftLeft(x.m, x.e - e), ShiftLeft(y.m, y.e - e)))

\* x / n for a whole number n in 1..1024
FDiv(x, n) ==
  LET Packed(d) == Float(x.neg, d.q, x.e - 14, d.r # 0)
  IN Packed(DivSmall(ShiftLeft(x.m, 14), n))

\* float(n)
FromInt(n) == Float(n < 0, Limbs(IF n < 0 THEN 0 - n ELSE n), 0, FALSE)

\* The key under which doubles are in ascending order as integer tuples.
FKey(x) ==
  IF x = Zero THEN <<0, 0, 0, 0, 0>>
  ELSE IF x.neg THEN <<-1, 0 - x.e, 0 - x.m[3], 0 - x.m[2], 0 - x.m[1]>>
  ELSE <<1, x.e, x.m[3], x.m[2], x.m[1]>>

\* int(x): the fraction is cut off.
IntOf(x) ==
  LET Signed(v) == IF x.neg THEN 0 - v ELSE v
  IN Signed(ToInt(IF x.e >= 0 THEN ShiftLeft(x.m, x.e)
                  ELSE ShiftRight(x.m, 0 - x.e).q))

\* numpy's rint(x): the nearest whole number, a tie to the even one.
Rint(x) ==
  LET Signed(v) == IF x.neg THEN 0 - v ELSE v
  IN Signed(ToInt(RoundShift(x.m, 0 - x.e, FALSE)))

\* Python's round(x, k) of a float and the format :.kf, with scale = 10^k
\* <= 1024, in units of 1/scale: the decimal nearest to the value of x.
RoundFloat(x, scale) == Rint([x EXCEPT !.m = MulSmall(@, scale, 0)])

\* Series.round(k), scale = 10^k <= 1024, in units of 1/scale: rint of the
\* double product x * scale.
SeriesRound(x, scale) == Rint(Float(x.neg, MulSmall(x.m, scale, 0), x.e, FALSE))

\* The number pd.to_numeric reads from a cell it parses: the digits of the
\* decimal as a whole number, multiplied or divided by the power of ten
\* (one rounding; texts of up to 15 digits and powers up to 10^22).
to_numeric(s) ==
  LET RECURSIVE Whole(_)
      Whole(t) == IF t = <<>> THEN <<>>
                  ELSE Norm(MulSmall(Whole(SubSeq(t, 1, Len(t) - 1)), 10,
                                     DigitVal(t[Len(t)])))
      RECURSIVE Times10(_, _)
      Times10(a, j) == IF j = 0 THEN a ELSE Times10(MulSmall(a, 10, 0), j - 1)
      RECURSIVE Over10(_, _, _)
      Over10(a, j, sticky) ==
        IF j = 0 THEN [q |-> a, sticky |-> sticky]
        ELSE LET Next10(d) == Over10(d.q, j - 1, sticky \/ d.r # 0)
             IN Next10(DivSmall(a, 10))
      Quotient(neg, d, sh) == Float(neg, d.q, 0 - sh, d.sticky)
      Scaled(neg, w, k) ==
        IF k >= 0 THEN Float(neg, Times10(w, k), 0, FALSE)
        ELSE Quotient(neg, Over10(ShiftLeft(w, 60 - 4 * k), 0 - k, FALSE),
                      60 - 4 * k)
      Decimal(neg, whole, frac, exp) ==
        Scaled(neg, Whole(whole \o frac), exp - Len(frac))
      Parts(p) ==
        Decimal(p.neg, p.mant[1],
                IF Len(p.mant) = 2 THEN p.mant[2] ELSE <<>>, p.exp)
  IN Parts(NumberParts(s))

\* pd.to_numeric(..., errors="coerce").fillna(0) of one cell.
NightsOf(s) == IF IsNumeric(s) THEN to_numeric(s) ELSE Zero

\* Series.sum() of fewer than 8 doubles, as numpy reduces them: each value
\* in row order is added to the running sum, which starts at zero.
RECURSIVE SeriesSum(_)
SeriesSum(xs) ==
  IF xs = <<>> THEN Zero
  ELSE FAdd(SeriesSum(SubSeq(xs, 1, Len(xs) - 1)), xs[Len(xs)])

\* The "sum" aggregate of a group is sumx: pandas adds with Kahan's
\* compensation; the record is the sum and the compensation after the last
\* value.
RECURSIVE Kahan(_)
Kahan(xs) ==
  IF xs = <<>> THEN [sumx |-> Zero, compensation |-> Zero]
  ELSE LET Total(k, y, t) ==
             [sumx |-> t, compensation |-> FAdd(FAdd(t, Neg(k.sumx)), Neg(y))]
           Added(k, y) == Total(k, y, FAdd(k.sumx, y))
           Step(k) == Added(k, FAdd(xs[Len(xs)], Neg(k.compensation)))
       IN Step(Kahan(SubSeq(xs, 1, Len(xs) - 1)))

(***************************************************************************)
(* Tables.                                                                 *)
(***************************************************************************)
\* A pandas DataFrame: its column names in order and its rows in order.
DF(cols, rows) == [columns |-> cols, rows |-> rows]

\* Python's None where a table is expected.
None == [none |-> TRUE]

\* df.empty
IsEmpty(df) == Len(df.rows) = 0 \/ Len(df.columns) = 0

ColSet(df) == {df.columns[i] : i \in 1..Len(df.columns)}

\* df[c] = df[c].map(f): column c is replaced in the table itself.
\* vals[i] is the new cell of row i.
MapCol(df, c, vals) ==
  [df EXCEPT !.rows = [i \in 1..Len(df.rows) |->
                         [df.rows[i] EXCEPT ![c] = vals[i]]]]

\* df[c] = <values>: a new column is appended to the table itself.
\* vals[i] is the cell of row i.
AddCol(df, c, vals) ==
  DF(Append(df.columns, c),
     [i \in 1..Len(df.rows) |-> (c :> vals[i]) @@ df.rows[i]])

\* The table without the columns of the set gone.
DropCols(df, gone) ==
  LET keep == SelectSeq(df.columns, LAMBDA c : c \notin gone)
      ks == {keep[i] : i \in 1..Len(keep)}
  IN DF(keep, [i \in 1..Len(df.rows) |-> [c \in ks |-> df.rows[i][c]]])

\* [c for c in required_cols if c not in df.columns]
MissingFirstOnly(required, df) ==
  LET all == SelectSeq(required, LAMBDA c : c \notin ColSet(df))
  IN IF all = <<>> THEN all ELSE <<all[1]>>

Missing(required, df) == SelectSeq(required, LAMBDA c : c \notin ColSet(df))

\* The sequences over the set S of length at most n.
RECURSIVE SeqsUpTo(_, _)
SeqsUpTo(S, n) ==
  IF n = 0 THEN {<<>>}
  ELSE LET shorter == SeqsUpTo(S, n - 1)
       IN shorter \cup {Append(q, x) : q \in {t \in shorter : Len(t) = n - 1}, x \in S}

Repeat(x, n) == [i \in 1..n |-> x]

(***************************************************************************)
(* Input data.                                                             *)
(***************************************************************************)
t_101 == <<"1", "0", "1">>
t_102 == <<"1", "0", "2">>
t_102lead == <<" ", "1", "0", "2">>
t_King == <<"K", "i", "n", "g">>
t_Suite == <<"S", "u", "i", "t", "e">>
t_blank == <<" ">>
t_blank2 == <<" ", " ">>
t_empty == <<>>
f_OceanView == <<"O", "c", "e", "a", "n", "/", "V", "i", "e", "w">>
f_Ocean == <<"O", "c", "e", "a", "n">>

\* required_cols of build_housekeeping_section.
HkRequired ==
  << "Room Number", "Room Type", "FD Status", "HSK Status Before",
     "HSK Status After", "Housekeeper Before", "Housekeeper After",
     "Username", "Date" >>

\* required_cols of build_room_usage_section.
UsageRequired ==
  << "Room Number", "Room Type", "Number of Nights", "Orientation/Features" >>

HkRow(room, rtype, before, after, hkb, hka, user, date) ==
  ("Room Number" :> room) @@ ("Room Type" :> rtype) @@ ("FD Status" :> <<"O", "C", "C">>)
  @@ ("HSK Status Before" :> before) @@ ("HSK Status After" :> after)
  @@ ("Housekeeper Before" :> hkb) @@ ("Housekeeper After" :> hka)
  @@ ("Username" :> user) @@ ("Date" :> date)

\* The rows housekeeping logs are built from: clean rows, rows with padded,
\* blank and missing names, and rows whose Date is in another format, names
\* no day of the calendar, or is missing.
HkRowSet ==
  LET t_Dirty == <<"D", "i", "r", "t", "y">>
      t_Clean == <<"C", "l", "e", "a", "n">>
      t_ann == <<"a", "n", "n">>
      t_bob == <<"b", "o", "b">>
      t_bobtrail == <<"b", "o", "b", " ">>
      t_al == <<"a", "l">>
      t_allead == <<" ", "a", "l">>
      t_cy == <<"c", "y">>
      d_jan2 == <<"0", "1", "/", "0", "2", "/", "2", "0", "2", "4", " ", "1", "0", ":", "0", "0">>
      d_jan2late == <<"0", "1", "/", "0", "2", "/", "2", "0", "2", "4", " ", "2", "3", ":", "5", "9">>
      d_jan3short == <<"1", "/", "3", "/", "2", "0", "2", "4", " ", "9", ":", "0", "5">>
      d_iso == <<"2", "0", "2", "4", "-", "0", "1", "-", "0", "2", " ", "1", "0", ":", "0", "0">>
      d_feb30 == <<"0", "2", "/", "3", "0", "/", "2", "0", "2", "4", " ", "1", "0", ":", "0", "0">>
  IN { HkRow(t_101, t_King, t_Dirty, t_Clean, t_ann, t_bob, t_al, d_jan2),
       HkRow(t_101, t_King, t_Clean, t_Clean, t_bob, t_blank, NaN, d_iso),
       HkRow(t_102, t_Suite, t_Dirty, t_Clean, NaN, t_bobtrail, t_allead, d_jan3short),
       HkRow(t_102lead, t_Suite, t_Clean, t_Dirty, t_ann, t_ann, t_cy, d_jan2late),
       HkRow(t_101, t_Suite, t_Dirty, t_Dirty, t_empty, NaN, t_blank2, d_feb30),
       HkRow(t_102, t_King, t_Clean, t_Clean, t_bob, t_bob, t_cy, NaN) }

UsageRow(room, rtype, nights, feats) ==
  ("Room Number" :> room) @@ ("Room Type" :> rtype)
  @@ ("Number of Nights" :> nights) @@ ("Orientation/Features" :> feats)

\* The rows room-usage tables are built from.
UsageRowSet ==
  LET n_3 == <<"3">>
      n_2 == <<"2">>
      n_2half == <<"2", ".", "5">>
      n_2p7 == <<"2", ".", "7">>
      n_neg3 == <<"-", "3">>
      n_abc == <<"a", "b", "c">>
      f_mixed == <<"K", "i", "n", "g", "|", "O", "c", "e", "a", "n", ";", " ",
                   "V", "i", "e", "w", ",">>
  IN { UsageRow(t_101, t_Suite, n_3, f_OceanView),
       UsageRow(t_102, t_Suite, n_2, f_Ocean),
       UsageRow(t_101, t_Suite, n_neg3, t_blank),
       UsageRow(t_101, t_King, n_abc, NaN),
       UsageRow(t_102lead, t_King, NaN, f_mixed),
       UsageRow(t_102, t_King, n_2half, f_Ocean),
       UsageRow(t_101, t_King, n_2p7, f_Ocean) }

\* Tables with every required column.
FullTables(required, rowset, n) == {DF(required, q) : q \in SeqsUpTo(rowset, n)}

\* Tables lacking the (non-empty) set gone of required columns.
SchemaTables(required, rowset, n) ==
  { DropCols(t, gone) :
      t \in FullTables(required, rowset, n),
      gone \in (SUBSET {required[i] : i \in 1..Len(required)}) \ {{}} }

(***************************************************************************)
(* build_housekeeping_section: the computations.                           *)
(***************************************************************************)
\* for c in required_cols: df[c] = df[c].map(safe_str)
RECURSIVE NormalizeCols(_, _)
NormalizeCols(df, cols) ==
  IF cols = <<>> THEN df
  ELSE NormalizeCols(
         MapCol(df, Head(cols),
                [i \in 1..Len(df.rows) |-> safe_str(df.rows[i][Head(cols)])]),
         Tail(cols))

\* The four derived columns DateTime, Day, HSK_Changed, HSK_Transition.
HkDerive(df) ==
  LET n == Len(df.rows)
      \* Series.dt.date of one cell
      DateOf(ts) == IF ts = NaT THEN NaT ELSE <<ts[1], ts[2], ts[3]>>
      d1 == AddCol(df, "DateTime",
                   [i \in 1..n |-> coerce_datetime(df.rows[i]["Date"])])
      d2 == AddCol(d1, "Day", [i \in 1..n |-> DateOf(d1.rows[i]["DateTime"])])
      d3 == AddCol(d2, "HSK_Changed",
                   [i \in 1..n |-> df.rows[i]["HSK Status Before"]
                                     # df.rows[i]["HSK Status After"]])
  IN AddCol(d3, "HSK_Transition",
            [i \in 1..n |-> <<df.rows[i]["HSK Status Before"],
                              df.rows[i]["HSK Status After"]>>])

\* The numbers of the rows whose column col holds k.
RowsOf(df, col, k) == {i \in 1..Len(df.rows) : df.rows[i][col] = k}

\* nunique of Room Number over the rows numbered in idx.
NUniqueRooms(df, idx) == Cardinality({df.rows[i]["Room Number"] : i \in idx})

\* sum of HSK_Changed over the rows numbered in idx.
ChangedIn(df, idx) == Cardinality({i \in idx : df.rows[i]["HSK_Changed"]})

\* A faulty variant of a group: `rows` counts distinct rooms (nunique for size).
HkGroupRowsAsUnique(df, col, k) ==
  LET idx == RowsOf(df, col, k)
  IN (col :> k) @@
     [ rows |-> NUniqueRooms(df, idx),
       unique_rooms |-> NUniqueRooms(df, idx),
       changed |-> ChangedIn(df, idx),
       change_rate |-> RoundDiv(ChangedIn(df, idx), Cardinality(idx), 10000) ]

\* One group of df.groupby(col).agg(rows, unique_rooms, changed), with
\* change_rate = (changed / rows).round(4) in units of 1/10000.
HkGroup(df, col, k) ==
  LET idx == RowsOf(df, col, k)
  IN (col :> k) @@
     [ rows |-> Cardinality(idx),
       unique_rooms |-> NUniqueRooms(df, idx),
       changed |-> ChangedIn(df, idx),
       change_rate |-> RoundDiv(ChangedIn(df, idx), Cardinality(idx), 10000) ]

\* The values of a column, each once, in ascending order (groupby sorts keys).
TextKeys(df, col) == SortedTexts({df.rows[i][col] : i \in 1..Len(df.rows)})

\* The days of groupby("Day", dropna=True): rows without a day form no group.
DayKeys(df) ==
  LET S == {df.rows[i]["Day"] : i \in 1..Len(df.rows)} \ {NaT}
      Rank(x) == 1 + Cardinality({y \in S : LexLess(y, x)})
  IN [k \in 1..Cardinality(S) |-> CHOOSE x \in S : Rank(x) = k]

\* by_day: None unless some row has a day; else one group per day, ascending.
hk_by_day(df) ==
  IF \A i \in 1..Len(df.rows) : df.rows[i]["Day"] = NaT THEN None
  ELSE LET ks == DayKeys(df)
       IN DF(<<"Day", "rows", "unique_rooms", "changed", "change_rate">>,
             [j \in 1..Len(ks) |-> HkGroup(df, "Day", ks[j])])

\* groupby(col, dropna=False).agg(...).reset_index(): groups in key order.
HkGroups(df, col) ==
  LET ks == TextKeys(df, col)
  IN [j \in 1..Len(ks) |-> HkGroup(df, col, ks[j])]

\* by_room_type: sorted by changed, then rows, both descending.
hk_by_room_type(df) ==
  LET g == HkGroups(df, "Room Type")
  IN DF(<<"Room Type", "rows", "unique_rooms", "changed", "change_rate">>,
        SortByKeys(g, [j \in 1..Len(g) |-> <<0 - g[j].changed, 0 - g[j].rows>>]))

\* by_hk_after: sorted by changed, then rows, both descending.
hk_by_hk_after(df) ==
  LET g == HkGroups(df, "Housekeeper After")
  IN DF(<<"Housekeeper After", "rows", "changed", "unique_rooms", "change_rate">>,
        SortByKeys(g, [j \in 1..Len(g) |-> <<0 - g[j].changed, 0 - g[j].rows>>]))

\* A faulty variant of by_user: sorted as the other views are, by changed
\* and then rows.
hk_by_user_changed_first(df) ==
  LET g == HkGroups(df, "Username")
  IN DF(<<"Username", "rows", "changed", "unique_rooms", "change_rate">>,
        SortByKeys(g, [j \in 1..Len(g) |-> <<0 - g[j].changed, 0 - g[j].rows>>]))

\* by_user: sorted by rows, then changed, both descending.
hk_by_user(df) ==
  LET g == HkGroups(df, "Username")
  IN DF(<<"Username", "rows", "changed", "unique_rooms", "change_rate">>,
        SortByKeys(g, [j \in 1..Len(g) |-> <<0 - g[j].rows, 0 - g[j].changed>>]))

\* A faulty variant of the transition matrix: a cell counts the distinct
\* rooms of its rows (nunique for count).
hk_transition_nunique(df) ==
  LET bs == TextKeys(df, "HSK Status Before")
      as == TextKeys(df, "HSK Status After")
  IN [ index |-> bs,
       columns |-> as,
       cells |-> [b \in {bs[i] : i \in 1..Len(bs)}, a \in {as[i] : i \in 1..Len(as)} |->
                    Cardinality({df.rows[i]["Room Number"] :
                                   i \in {k \in 1..Len(df.rows) :
                                            /\ df.rows[k]["HSK Status Before"] = b
                                            /\ df.rows[k]["HSK Status After"] = a}})] ]

\* pivot_table(index=Before, columns=After, values=Room Number, count,
\* fill_value=0).sort_index(): the labels in ascending order and every cell.
hk_transition(df) ==
  LET bs == TextKeys(df, "HSK Status Before")
      as == TextKeys(df, "HSK Status After")
  IN [ index |-> bs,
       columns |-> as,
       cells |-> [b \in {bs[i] : i \in 1..Len(bs)}, a \in {as[i] : i \in 1..Len(as)} |->
                    Cardinality({i \in 1..Len(df.rows) :
                                   /\ df.rows[i]["HSK Status Before"] = b
                                   /\ df.rows[i]["HSK Status After"] = a})] ]

\* transition.reset_index(): the matrix as a table, one row per Before label;
\* its columns are the index column and one column per After label, and a
\* row holds its Before label and its counts in column order.
TransitionTable(tr) ==
  DF(<<[name |-> "HSK Status Before"]>>
       \o [j \in 1..Len(tr.columns) |-> [label |-> tr.columns[j]]],
     [i \in 1..Len(tr.index) |->
        [ before |-> tr.index[i],
          counts |-> [j \in 1..Len(tr.columns) |-> tr.cells[tr.index[i], tr.columns[j]]] ]])

\* The KPI table `overall` (one row); rates rounded to 4 decimals, in 1/10000.
hk_overall(df) ==
  LET n == Len(df.rows)
      changed == ChangedIn(df, 1..n)
      parsed == Cardinality({i \in 1..n : df.rows[i]["DateTime"] # NaT})
  IN DF(<<"Total rows", "Unique rooms", "HSK status changes (count)",
          "HSK status changes (rate)", "Date parse success rate">>,
        << ("Total rows" :> n)
           @@ ("Unique rooms" :> NUniqueRooms(df, 1..n))
           @@ ("HSK status changes (count)" :> changed)
           @@ ("HSK status changes (rate)" :>
                 IF n = 0 THEN 0 ELSE Round(changed, n, 10000))
           @@ ("Date parse success rate" :>
                 IF n = 0 THEN 0 ELSE Round(parsed, n, 10000)) >>)

\* Band edges of classify_rotation, in thousandths.
VeryLowBelow == 200
LowBelow == 400
ModerateBelow == 600

\* classify_rotation(x), x in thousandths.
classify_rotation(x) ==
  IF x < VeryLowBelow THEN "Very Low (likely not rotating)"
  ELSE IF x < LowBelow THEN "Low"
  ELSE IF x < ModerateBelow THEN "Moderate"
  ELSE "High (good rotation)"

\* (unique_rooms / total_actions).round(3), in thousandths.
room_uniqueness_rate(unique_rooms, total_actions) ==
  RoundDiv(unique_rooms, total_actions, 1000)

\* One record of uniqueness_by_user.
RotationRecord(df, user) ==
  LET idx == RowsOf(df, "Username", user)
      rate == room_uniqueness_rate(NUniqueRooms(df, idx), Cardinality(idx))
  IN [ Username |-> user,
       total_actions |-> Cardinality(idx),
       unique_rooms |-> NUniqueRooms(df, idx),
       status_changes |-> ChangedIn(df, idx),
       room_uniqueness_rate |-> rate,
       rotation_quality |-> classify_rotation(rate) ]

\* uniqueness_by_user: one record per Username, sorted by rate ascending and
\* then by total_actions descending.
hk_uniqueness_by_user(df) ==
  LET ks == TextKeys(df, "Username")
      g == [j \in 1..Len(ks) |-> RotationRecord(df, ks[j])]
  IN DF(<<"Username", "total_actions", "unique_rooms", "status_changes",
          "room_uniqueness_rate", "rotation_quality">>,
        SortByKeys(g, [j \in 1..Len(g) |->
                         <<g[j].room_uniqueness_rate, 0 - g[j].total_actions>>]))

\* top_n = max(1, int(top_n))
EffectiveTopN(top_n) == IF top_n >= 1 THEN top_n ELSE 1

\* A faulty variant of chart_files: the daily charts are appended after the
\* two charts that are always drawn.
hk_chart_files_daily_last(by_day) ==
  << <<"top_housekeepers_after.png", "Top {top_n} Housekeepers (by changes, After)">>,
     <<"hsk_transition_heatmap.png", "HSK Status Transition Matrix (Before -> After)">> >>
  \o (IF by_day # None /\ Len(by_day.rows) > 0
      THEN << <<"daily_volume.png", "Daily volume (rows logged)">>,
              <<"daily_changes.png", "Daily HSK status changes">>,
              <<"hsk_after_by_day.png", "HSK Status After by day (top statuses)">> >>
      ELSE <<>>)

\* chart_files of the housekeeping section: the three daily charts when
\* by_day has groups, then the two charts that are always drawn.
hk_chart_files(by_day) ==
  (IF by_day # None /\ Len(by_day.rows) > 0
   THEN << <<"daily_volume.png", "Daily volume (rows logged)">>,
           <<"daily_changes.png", "Daily HSK status changes">>,
           <<"hsk_after_by_day.png", "HSK Status After by day (top statuses)">> >>
   ELSE <<>>)
  \o << <<"top_housekeepers_after.png", "Top {top_n} Housekeepers (by changes, After)">>,
        <<"hsk_transition_heatmap.png", "HSK Status Transition Matrix (Before -> After)">> >>

\* exec_notes of the housekeeping section: which notes are written and the
\* figures they quote.
hk_exec_notes(df, by_room_type, by_hk_after) ==
  LET n == Len(df.rows)
      parsed == Cardinality({i \in 1..n : df.rows[i]["DateTime"] # NaT})
  IN (IF n # 0 THEN << <<"changed of total", ChangedIn(df, 1..n), n>> >> ELSE <<>>)
     \o (IF Len(by_room_type.rows) > 0
         THEN << <<"most changed room type", by_room_type.rows[1]["Room Type"],
                   by_room_type.rows[1].changed>> >>
         ELSE <<>>)
     \o (IF Len(by_hk_after.rows) > 0
         THEN << <<"most closures by housekeeper after",
                   by_hk_after.rows[1]["Housekeeper After"],
                   by_hk_after.rows[1].changed>> >>
         ELSE <<>>)
     \o (IF (IF n = 0 THEN TRUE ELSE 10 * parsed < 9 * n)
         THEN << <<"date parsing warning">> >> ELSE <<>>)

\* Names of the files a pass over a list of saved tables or charts writes.
Range(seq) == {seq[i] : i \in 1..Len(seq)}

(***************************************************************************)
(* build_room_usage_section: the computations.                             *)
(***************************************************************************)
\* The three text columns trimmed, then Number of Nights made a number.
UsageNormalize(df) ==
  LET d1 == NormalizeCols(df, <<"Room Number", "Room Type",
                                "Orientation/Features">>)
  IN MapCol(d1, "Number of Nights",
            [i \in 1..Len(d1.rows) |-> NightsOf(d1.rows[i]["Number of Nights"])])

\* The Number of Nights of the rows numbered in idx, in row order.
NightsIn(df, idx) ==
  SelectIdx([i \in 1..Len(df.rows) |-> df.rows[i]["Number of Nights"]], idx)

\* usage_kpis: unique rooms, int(total nights), average per room (2 decimals,
\* in hundredths).
usage_kpis(df) ==
  LET n == Len(df.rows)
      total_rooms == NUniqueRooms(df, 1..n)
      total_nights == SeriesSum(NightsIn(df, 1..n))
  IN DF(<<"Unique rooms", "Total nights", "Avg nights per room">>,
        << ("Unique rooms" :> total_rooms)
           @@ ("Total nights" :> IntOf(total_nights))
           @@ ("Avg nights per room" :>
                 IF total_rooms = 0 THEN 0
                 ELSE RoundFloat(FDiv(total_nights, total_rooms), 100)) >>)

\* by_room_type of the usage section: sorted by total_nights, then rooms,
\* both descending.  In a group total_nights is the "sum" aggregate and
\* avg_nights_per_room the "mean" aggregate of Number of Nights (the sum
\* over the group's rows divided by their number), rounded to 2 decimals, in
\* hundredths.
usage_by_room_type(df) ==
  LET ks == TextKeys(df, "Room Type")
      UsageGroup(k) ==
        LET idx == RowsOf(df, "Room Type", k)
            total == Kahan(NightsIn(df, idx)).sumx
        IN ("Room Type" :> k) @@
           [ rooms |-> NUniqueRooms(df, idx),
             total_nights |-> total,
             avg_nights_per_room |->
               SeriesRound(FDiv(total, Cardinality(idx)), 100) ]
      g == [j \in 1..Len(ks) |-> UsageGroup(ks[j])]
  IN DF(<<"Room Type", "rooms", "total_nights", "avg_nights_per_room">>,
        SortByKeys(g, [j \in 1..Len(g) |->
                          FKey(Neg(g[j].total_nights)) \o <<0 - g[j].rooms>>]))

\* groupby(["Room Number", "Room Type"])["Number of Nights"].sum()
\* .reset_index(): one row per (Room Number, Room Type) pair, in groupby
\* order: by number, then type.
RoomGroups(df) ==
  LET pairs == {<<df.rows[i]["Room Number"], df.rows[i]["Room Type"]>> :
                  i \in 1..Len(df.rows)}
      Less(x, y) == \/ LexLess(Codes(x[1]), Codes(y[1]))
                    \/ (x[1] = y[1] /\ LexLess(Codes(x[2]), Codes(y[2])))
      Rank(x) == 1 + Cardinality({y \in pairs : Less(y, x)})
      ks == [k \in 1..Cardinality(pairs) |-> CHOOSE x \in pairs : Rank(x) = k]
  IN [j \in 1..Len(ks) |->
        ("Room Number" :> ks[j][1]) @@ ("Room Type" :> ks[j][2]) @@
        ("Number of Nights" :>
           Kahan(NightsIn(df, {i \in 1..Len(df.rows) :
                                 /\ df.rows[i]["Room Number"] = ks[j][1]
                                 /\ df.rows[i]["Room Type"] = ks[j][2]})).sumx)]

\* top_rooms: nights summed per (Room Number, Room Type), sorted by nights
\* descending with the default sort kind, cut to the first top_n; one table
\* per order the sort may leave groups of equal nights in.
usage_top_rooms(df, top_n) ==
  LET g == RoomGroups(df)
  IN { DF(<<"Room Number", "Room Type", "Number of Nights">>, Head_n(sorted, top_n)) :
         sorted \in QuickSorted(g, [j \in 1..Len(g) |->
                                     FKey(Neg(g[j]["Number of Nights"]))]) }

\* tokenize_features
tokenize_features(s) ==
  LET t == safe_str(s)
      \* s.replace(sep, ",") for each of "|", "/", ";"
      ReplaceSeps(u) ==
        [i \in 1..Len(u) |-> IF u[i] \in {"|", "/", ";"} THEN "," ELSE u[i]]
  IN IF t = <<>> THEN <<>>
     ELSE LET parts == Split(ReplaceSeps(t), ",")
              toks == [i \in 1..Len(parts) |-> Strip(parts[i])]
          IN SelectSeq(toks, LAMBDA x : x # <<>>)

\* feat_rows: one (token, nights) pair per token of every row, in row order.
RECURSIVE FeatRows(_)
FeatRows(rows) ==
  IF rows = <<>> THEN <<>>
  ELSE LET r == rows[Len(rows)]
           toks == tokenize_features(r["Orientation/Features"])
       IN FeatRows(SubSeq(rows, 1, Len(rows) - 1))
          \o [i \in 1..Len(toks) |-> <<toks[i], r["Number of Nights"]>>]

\* feat_summary: per token the nights summed and the mentions counted,
\* sorted by the sum descending with the default sort kind (one table per
\* order of the tokens of equal sums), and then total_nights made a whole
\* number by round(0).astype(int); the empty table when no row has a token.
usage_by_feature(df) ==
  LET fr == FeatRows(df.rows)
      ks == SortedTexts({fr[i][1] : i \in 1..Len(fr)})
      g == [j \in 1..Len(ks) |->
              [ Feature |-> ks[j],
                total_nights |->
                  Kahan(SelectIdx([i \in 1..Len(fr) |-> fr[i][2]],
                                  {i \in 1..Len(fr) : fr[i][1] = ks[j]})).sumx,
                mentions |-> Cardinality({i \in 1..Len(fr) : fr[i][1] = ks[j]}) ]]
  IN { DF(<<"Feature", "total_nights", "mentions">>,
          [j \in 1..Len(sorted) |->
             [sorted[j] EXCEPT !.total_nights = Rint(@)]]) :
         sorted \in QuickSorted(g, [j \in 1..Len(g) |->
                                     FKey(Neg(g[j].total_nights))]) }

\* chart_files of the usage section: one chart per non-empty view.
usage_chart_files(by_room_type, top_rooms, feat_summary) ==
  (IF ~IsEmpty(by_room_type)
   THEN << <<"room_usage_nights_by_room_type.png", "Total nights by Room Type">> >>
   ELSE <<>>)
  \o (IF ~IsEmpty(top_rooms)
      THEN << <<"room_usage_top_rooms.png", "Top {top_n} rooms by nights">> >>
      ELSE <<>>)
  \o (IF ~IsEmpty(feat_summary)
      THEN << <<"room_usage_top_features.png",
                "Top {top_n} Orientation/Features (by total nights)">> >>
      ELSE <<>>)

\* exec_notes of the usage section: the figures are written as int(...) and
\* the average with two decimals (in hundredths).
usage_exec_notes(df, by_room_type, top_rooms) ==
  LET n == Len(df.rows)
      total_rooms == NUniqueRooms(df, 1..n)
      total_nights == SeriesSum(NightsIn(df, 1..n))
  IN (IF total_rooms # 0
      THEN << <<"total nights across rooms", IntOf(total_nights), total_rooms,
                RoundFloat(FDiv(total_nights, total_rooms), 100)>> >>
      ELSE <<>>)
     \o (IF Len(by_room_type.rows) > 0
         THEN << <<"highest total nights room type", by_room_type.rows[1]["Room Type"],
                   IntOf(by_room_type.rows[1].total_nights)>> >>
         ELSE <<>>)
     \o (IF Len(top_rooms.rows) > 0
         THEN << <<"most-used room", top_rooms.rows[1]["Room Number"],
                   IntOf(top_rooms.rows[1]["Number of Nights"])>> >>
         ELSE <<>>)

(***************************************************************************)
(* df_to_html_table and build_html_report.                                 *)
(***************************************************************************)
\* Number of rows df_to_html_table shows by default.
MaxTableRows == 50

\* df_to_html_table(df, max_rows): the "no data" paragraph for None or an
\* empty table, else the header and the first max_rows rows, with the
\* "showing first" note when rows were cut.
df_to_html_table(df, max_rows) ==
  IF df = None THEN [nodata |-> TRUE]
  ELSE IF IsEmpty(df) THEN [nodata |-> TRUE]
  ELSE [ nodata |-> FALSE,
         th |-> df.columns,
         tbody |-> Head_n(df.rows, max_rows),
         extra |-> Len(df.rows) > max_rows ]

\* dict.get(key): None when the key is absent.
Get(dict, key) == IF key \in DOMAIN dict THEN dict[key] ELSE None

\* The page build_html_report writes.  The summaries are rendered from the
\* payloads; the six slots of the "Room Rotation by Username" part are written
\* with doubled braces in the template, so the page holds their names as
\* literal text and no callout item, chart or table is put in them.
html_report(housekeeping, room_usage) ==
  [ hk_kpis |-> Get(housekeeping, "kpis"),
    hk_exec_notes |-> housekeeping["exec_notes"],
    hk_charts |-> housekeeping["charts"],
    hk_by_day |-> df_to_html_table(Get(housekeeping, "by_day"), MaxTableRows),
    hk_by_room_type |-> df_to_html_table(Get(housekeeping, "by_room_type"), MaxTableRows),
    hk_by_hk_after |-> df_to_html_table(Get(housekeeping, "by_hk_after"), MaxTableRows),
    hk_by_user |-> df_to_html_table(Get(housekeeping, "by_user"), MaxTableRows),
    hk_transition_matrix |->
      df_to_html_table(Get(housekeeping, "transition_matrix"), MaxTableRows),
    ru_kpis |-> Get(room_usage, "kpis"),
    ru_exec_notes |-> room_usage["exec_notes"],
    ru_charts |-> room_usage["charts"],
    ru_by_room_type |-> df_to_html_table(Get(room_usage, "by_room_type"), MaxTableRows),
    ru_top_rooms |-> df_to_html_table(Get(room_usage, "top_rooms"), MaxTableRows),
    ru_by_feature |-> df_to_html_table(Get(room_usage, "by_feature"), MaxTableRows),
    rotation_slots |-> << "{UNI_CHART_HTML}", "{ROTATION_CALLOUTS_HTML}", "{}",
                          "{uni_chart_html}", "{rotation_callouts_html}",
                          "{rotation_table_html}" >>,
    callout_items |-> <<>> ]

(***************************************************************************)
(* State.                                                                  *)
(***************************************************************************)
VARIABLES
  pc,            \* the statement about to run
  entry,         \* the function that was called from outside
  hk_exists,     \* whether the --housekeeping path exists
  usage_exists,  \* whether the --usage path exists
  top_n,         \* the top_n argument (--top)
  out_dir,       \* whether the output directory has been created
  files,         \* the names of the files written into the output directory
  reads,         \* the input files read so far, in order
  hk_df,         \* the caller's housekeeping table (the functions work on it)
  usage_df,      \* the caller's room-usage table
  hk_df0,        \* the housekeeping table as it was handed over
  usage_df0,     \* the room-usage table as it was handed over
  error,         \* the exception that ended the run, if any
  hk,            \* local variables of build_housekeeping_section
  housekeeping,  \* the payload build_housekeeping_section returned
  ru,            \* local variables of build_room_usage_section
  room_usage,    \* the payload build_room_usage_section returned
  report,        \* the page written to report.html
  rot,           \* argument and result of the rate classifier
  callouts,      \* the active calls of rotation_callouts and its result
  session        \* sessionID.main: captured id, requests seen, export URL

vars ==
  << pc, entry, hk_exists, usage_exists, top_n, out_dir, files, reads, hk_df,
     usage_df, hk_df0, usage_df0, error, hk, housekeeping, ru, room_usage,
     report, rot, callouts, session >>

NoError == [type |-> "none"]

\* Python's None where a text is expected.
NoText == <<"None">>

\* sessionID.main is not running.
NoSession == [instance_id |-> NoText, requests |-> <<>>, export |-> NoText]

\* rotation_callouts is not running.
NoCall == [stack |-> <<>>, result |-> None]

\* An empty frame of local variables / an empty dict.
Empty == [x \in {} |-> 0]

\* Values of --top tried.
TopNs == {0, 1, 2}

\* Minimum volume of the rotation callouts (total_actions >= 10).
MinCalloutActions == 10

\* Number of callouts kept (flagged.head(8)).
MaxCallouts == 8

\* The housekeeping tables given to a direct call; among them tables in
\* which one user reaches the callout volume: a row repeated
\* MinCalloutActions times, followed by at most one other row.
HkCallTables ==
  LET HkBulkTables ==
        { DF(HkRequired, Repeat(r, MinCalloutActions) \o q) :
            r \in HkRowSet, q \in SeqsUpTo(HkRowSet, 1) }
  IN FullTables(HkRequired, HkRowSet, MaxRows) \cup HkBulkTables
  \cup SchemaTables(HkRequired, HkRowSet, MaxSchemaRows)

\* The room-usage tables given to a direct call.
UsageCallTables ==
  FullTables(UsageRequired, UsageRowSet, MaxRows)
  \cup SchemaTables(UsageRequired, UsageRowSet, MaxSchemaRows)

\* The housekeeping files main may read: free-form tables, one bulk table per
\* row, and tables lacking one required column.
HkMainTables ==
  FullTables(HkRequired, HkRowSet, MaxMainRows)
  \cup {DF(HkRequired, Repeat(r, MinCalloutActions)) : r \in HkRowSet}
  \cup {DropCols(t, {c}) : t \in FullTables(HkRequired, HkRowSet, MaxMainRows),
                           c \in Range(HkRequired)}

\* The room-usage files main may read.
UsageMainTables ==
  FullTables(UsageRequired, UsageRowSet, MaxMainRows)
  \cup {DropCols(t, {c}) : t \in FullTables(UsageRequired, UsageRowSet, MaxMainRows),
                           c \in Range(UsageRequired)}

(***************************************************************************)
(* build_housekeeping_section: the steps.                                  *)
(***************************************************************************)
\* Lines 109-122: the required columns are checked; a missing one raises.
HkValidate ==
  /\ pc = "hk_validate"
  /\ LET missing == Missing(HkRequired, hk_df)
     IN IF missing # <<>>
        THEN /\ error' = [ type |-> "ValueError",
                           text |-> "Housekeeping CSV missing required columns",
                           missing |-> missing ]
             /\ pc' = "raised"
        ELSE /\ pc' = "hk_normalize"
             /\ UNCHANGED error
  /\ UNCHANGED << entry, hk_exists, usage_exists, top_n, out_dir, files, reads,
                  hk_df, usage_df, hk_df0, usage_df0, hk, housekeeping, ru,
                  room_usage, report, rot,
                  callouts, session >>

\* Lines 124-126: every required column is trimmed, in the caller's table.
HkNormalize ==
  /\ pc = "hk_normalize"
  /\ hk_df' = NormalizeCols(hk_df, HkRequired)
  /\ pc' = "hk_derive"
  /\ UNCHANGED << entry, hk_exists, usage_exists, top_n, out_dir, files, reads,
                  usage_df, hk_df0, usage_df0, error, hk, housekeeping, ru,
                  room_usage, report, rot,
                  callouts, session >>

\* Lines 128-131: the derived columns are added to the caller's table.
HkDeriveCols ==
  /\ pc = "hk_derive"
  /\ hk_df' = HkDerive(hk_df)
  /\ pc' = "hk_kpis"
  /\ UNCHANGED << entry, hk_exists, usage_exists, top_n, out_dir, files, reads,
                  usage_df, hk_df0, usage_df0, error, hk, housekeeping, ru,
                  room_usage, report, rot,
                  callouts, session >>

\* Lines 133-147: the KPI table is computed and saved.
HkKpis ==
  /\ pc = "hk_kpis"
  /\ hk' = ("overall" :> hk_overall(hk_df)) @@ hk
  /\ files' = files \cup {"summary_overall_housekeeping.csv"}
  /\ pc' = "hk_views"
  /\ UNCHANGED << entry, hk_exists, usage_exists, top_n, out_dir, reads, hk_df,
                  usage_df, hk_df0, usage_df0, error, housekeeping, ru,
                  room_usage, report, rot,
                  callouts, session >>

\* Lines 149-204: the four grouping views are computed and saved; by_day is
\* saved only when it is not None.
HkViews ==
  /\ pc = "hk_views"
  /\ LET by_day == hk_by_day(hk_df)
     IN /\ hk' = ("by_day" :> by_day)
                 @@ ("by_room_type" :> hk_by_room_type(hk_df))
                 @@ ("by_hk_after" :> hk_by_hk_after(hk_df))
                 @@ ("by_user" :> hk_by_user(hk_df)) @@ hk
        /\ files' = files
                    \cup (IF by_day # None THEN {"summary_by_day.csv"} ELSE {})
                    \cup { "summary_by_room_type.csv",
                           "summary_by_housekeeper_after.csv",
                           "summary_by_username.csv" }
  /\ pc' = "hk_transition"
  /\ UNCHANGED << entry, hk_exists, usage_exists, top_n, out_dir, reads, hk_df,
                  usage_df, hk_df0, usage_df0, error, housekeeping, ru,
                  room_usage, report, rot,
                  callouts, session >>

\* Lines 206-217: the transition matrix is computed and saved.
HkTransition ==
  /\ pc = "hk_transition"
  /\ hk' = ("transition" :> hk_transition(hk_df)) @@ hk
  /\ files' = files \cup {"summary_hsk_transition_matrix.csv"}
  /\ pc' = "hk_charts"
  /\ UNCHANGED << entry, hk_exists, usage_exists, top_n, out_dir, reads, hk_df,
                  usage_df, hk_df0, usage_df0, error, housekeeping, ru,
                  room_usage, report, rot,
                  callouts, session >>

\* Lines 219-297: the charts are drawn and saved, in their fixed order.
HkCharts ==
  /\ pc = "hk_charts"
  /\ LET charts == hk_chart_files(hk["by_day"])
     IN /\ hk' = ("chart_files" :> charts)
                 @@ ("top_n" :> EffectiveTopN(top_n)) @@ hk
        /\ files' = files \cup {charts[i][1] : i \in 1..Len(charts)}
  /\ pc' = "hk_section"
  /\ UNCHANGED << entry, hk_exists, usage_exists, top_n, out_dir, reads, hk_df,
                  usage_df, hk_df0, usage_df0, error, housekeeping, ru,
                  room_usage, report, rot,
                  callouts, session >>

\* The dict `section` of lines 312-321.
hk_section(locals, exec_notes) ==
  [ kpis |-> locals["overall"],
    by_day |-> locals["by_day"],
    by_room_type |-> locals["by_room_type"],
    by_hk_after |-> locals["by_hk_after"],
    by_user |-> locals["by_user"],
    transition_matrix |-> TransitionTable(locals["transition"]),
    charts |-> locals["chart_files"],
    exec_notes |-> exec_notes ]

\* Lines 299-321: the executive notes and the payload dict.
HkSection ==
  /\ pc = "hk_section"
  /\ LET notes == hk_exec_notes(hk_df, hk["by_room_type"], hk["by_hk_after"])
     IN hk' = ("exec_notes" :> notes) @@ ("section" :> hk_section(hk, notes)) @@ hk
  /\ pc' = "hk_rotation"
  /\ UNCHANGED << entry, hk_exists, usage_exists, top_n, out_dir, files, reads,
                  hk_df, usage_df, hk_df0, usage_df0, error, housekeeping, ru,
                  room_usage, report, rot,
                  callouts, session >>

\* Lines 323-382: the rotation table is computed and saved with its scatter
\* chart; the chart (not the table) is added to the payload, which is returned.
HkRotation ==
  /\ pc = "hk_rotation"
  /\ LET section == ("uniqueness_chart" :>
                       << "username_room_rotation_scatter.png",
                          "Room rotation efficiency (lower = repeatedly working same rooms)" >>)
                    @@ hk["section"]
     IN /\ hk' = ("uniqueness_by_user" :> hk_uniqueness_by_user(hk_df))
                 @@ ("section" :> section) @@ hk
        /\ housekeeping' = section
  /\ files' = files \cup { "username_room_rotation_uniqueness.csv",
                           "username_room_rotation_scatter.png" }
  /\ pc' = IF entry = "main" THEN "ru_validate" ELSE "done"
  /\ UNCHANGED << entry, hk_exists, usage_exists, top_n, out_dir, reads, hk_df,
                  usage_df, hk_df0, usage_df0, error, ru, room_usage, report,
                  rot,
                  callouts, session >>

NextHk ==
  \/ HkValidate
  \/ HkNormalize
  \/ HkDeriveCols
  \/ HkKpis
  \/ HkViews
  \/ HkTransition
  \/ HkCharts
  \/ HkSection
  \/ HkRotation

(***************************************************************************)
(* build_room_usage_section: the steps.                                    *)
(***************************************************************************)
\* Lines 389-392: the required columns are checked; a missing one raises.
RuValidate ==
  /\ pc = "ru_validate"
  /\ LET missing == Missing(UsageRequired, usage_df)
     IN IF missing # <<>>
        THEN /\ error' = [ type |-> "ValueError",
                           text |-> "Room Usage CSV missing required columns",
                           missing |-> missing ]
             /\ pc' = "raised"
        ELSE /\ pc' = "ru_normalize"
             /\ UNCHANGED error
  /\ UNCHANGED << entry, hk_exists, usage_exists, top_n, out_dir, files, reads,
                  hk_df, usage_df, hk_df0, usage_df0, hk, housekeeping, ru,
                  room_usage, report, rot,
                  callouts, session >>

\* Lines 394-397: the text columns are trimmed and Number of Nights is made
\* a number, in the caller's table.
RuNormalize ==
  /\ pc = "ru_normalize"
  /\ usage_df' = UsageNormalize(usage_df)
  /\ pc' = "ru_kpis"
  /\ UNCHANGED << entry, hk_exists, usage_exists, top_n, out_dir, files, reads,
                  hk_df, hk_df0, usage_df0, error, hk, housekeeping, ru,
                  room_usage, report, rot,
                  callouts, session >>

\* Lines 399-408: the KPI table is computed and saved.
RuKpis ==
  /\ pc = "ru_kpis"
  /\ ru' = ("usage_kpis" :> usage_kpis(usage_df)) @@ ru
  /\ files' = files \cup {"summary_overall_room_usage.csv"}
  /\ pc' = "ru_views"
  /\ UNCHANGED << entry, hk_exists, usage_exists, top_n, out_dir, reads, hk_df,
                  usage_df, hk_df0, usage_df0, error, hk, housekeeping,
                  room_usage, report, rot,
                  callouts, session >>

\* Lines 410-453: by_room_type, top_rooms and the feature rollup are computed
\* and saved.
RuViews ==
  /\ pc = "ru_views"
  /\ \E top_rooms \in usage_top_rooms(usage_df, EffectiveTopN(top_n)) :
       \E feat_summary \in usage_by_feature(usage_df) :
         ru' = ("by_room_type" :> usage_by_room_type(usage_df))
               @@ ("top_n" :> EffectiveTopN(top_n))
               @@ ("top_rooms" :> top_rooms)
               @@ ("feat_summary" :> feat_summary) @@ ru
  /\ files' = files \cup { "room_usage_by_room_type.csv",
                           "room_usage_top_rooms.csv",
                           "room_usage_by_feature.csv" }
  /\ pc' = "ru_charts"
  /\ UNCHANGED << entry, hk_exists, usage_exists, top_n, out_dir, reads, hk_df,
                  usage_df, hk_df0, usage_df0, error, hk, housekeeping,
                  room_usage, report, rot,
                  callouts, session >>

\* Lines 455-494: one chart per non-empty view is drawn and saved.
RuCharts ==
  /\ pc = "ru_charts"
  /\ LET charts == usage_chart_files(ru["by_room_type"], ru["top_rooms"],
                                     ru["feat_summary"])
     IN /\ ru' = ("chart_files" :> charts) @@ ru
        /\ files' = files \cup {charts[i][1] : i \in 1..Len(charts)}
  /\ pc' = "ru_section"
  /\ UNCHANGED << entry, hk_exists, usage_exists, top_n, out_dir, reads, hk_df,
                  usage_df, hk_df0, usage_df0, error, hk, housekeeping,
                  room_usage, report, rot,
                  callouts, session >>

\* The dict `section` of lines 506-513.
ru_section(locals, exec_notes) ==
  [ kpis |-> locals["usage_kpis"],
    by_room_type |-> locals["by_room_type"],
    top_rooms |-> locals["top_rooms"],
    by_feature |-> locals["feat_summary"],
    charts |-> locals["chart_files"],
    exec_notes |-> exec_notes ]

\* Lines 496-515: the executive notes and the payload, which is returned.
RuSection ==
  /\ pc = "ru_section"
  /\ LET notes == usage_exec_notes(usage_df, ru["by_room_type"], ru["top_rooms"])
     IN /\ ru' = ("exec_notes" :> notes) @@ ("section" :> ru_section(ru, notes)) @@ ru
        /\ room_usage' = ru_section(ru, notes)
  /\ pc' = IF entry = "main" THEN "html" ELSE "done"
  /\ UNCHANGED << entry, hk_exists, usage_exists, top_n, out_dir, files, reads,
                  hk_df, usage_df, hk_df0, usage_df0, error, hk, housekeeping,
                  report, rot,
                  callouts, session >>

NextRu ==
  \/ RuValidate
  \/ RuNormalize
  \/ RuKpis
  \/ RuViews
  \/ RuCharts
  \/ RuSection

(***************************************************************************)
(* main: the steps.                                                        *)
(***************************************************************************)
\* A faulty variant of the first check: the housekeeping file is read as soon
\* as its path is found to exist, before the usage path is checked.
MainCheckHkThenRead ==
  /\ pc = "main_check_hk"
  /\ IF hk_exists
     THEN /\ pc' = "main_check_usage"
          /\ reads' = Append(reads, "housekeeping")
          /\ UNCHANGED error
     ELSE /\ pc' = "raised"
          /\ error' = [ type |-> "FileNotFoundError",
                        text |-> "Housekeeping CSV not found", missing |-> <<>> ]
          /\ UNCHANGED reads
  /\ UNCHANGED << entry, hk_exists, usage_exists, top_n, out_dir, files,
                  hk_df, usage_df, hk_df0, usage_df0, hk, housekeeping, ru,
                  room_usage, report, rot,
                  callouts, session >>

\* Lines 972-973: the housekeeping path must exist.
MainCheckHk ==
  /\ pc = "main_check_hk"
  /\ IF hk_exists
     THEN pc' = "main_check_usage" /\ UNCHANGED error
     ELSE /\ pc' = "raised"
          /\ error' = [ type |-> "FileNotFoundError",
                        text |-> "Housekeeping CSV not found", missing |-> <<>> ]
  /\ UNCHANGED << entry, hk_exists, usage_exists, top_n, out_dir, files, reads,
                  hk_df, usage_df, hk_df0, usage_df0, hk, housekeeping, ru,
                  room_usage, report, rot,
                  callouts, session >>

\* Lines 974-975: the room-usage path must exist.
MainCheckUsage ==
  /\ pc = "main_check_usage"
  /\ IF usage_exists
     THEN pc' = "main_mkdir" /\ UNCHANGED error
     ELSE /\ pc' = "raised"
          /\ error' = [ type |-> "FileNotFoundError",
                        text |-> "Room Usage CSV not found", missing |-> <<>> ]
  /\ UNCHANGED << entry, hk_exists, usage_exists, top_n, out_dir, files, reads,
                  hk_df, usage_df, hk_df0, usage_df0, hk, housekeeping, ru,
                  room_usage, report, rot,
                  callouts, session >>

\* Line 977: ensure_output_dir creates the timestamped directory.
MainMkdir ==
  /\ pc = "main_mkdir"
  /\ out_dir' = TRUE
  /\ pc' = "main_read_hk"
  /\ UNCHANGED << entry, hk_exists, usage_exists, top_n, files, reads, hk_df,
                  usage_df, hk_df0, usage_df0, error, hk, housekeeping, ru,
                  room_usage, report, rot,
                  callouts, session >>

\* Line 980: the housekeeping CSV is read; its content is the input.
MainReadHk ==
  /\ pc = "main_read_hk"
  /\ \E t \in HkMainTables : hk_df' = t /\ hk_df0' = t
  /\ reads' = Append(reads, "housekeeping")
  /\ pc' = "main_read_usage"
  /\ UNCHANGED << entry, hk_exists, usage_exists, top_n, out_dir, files,
                  usage_df, usage_df0, error, hk, housekeeping, ru, room_usage,
                  report, rot,
                  callouts, session >>

\* Line 981: the room-usage CSV is read; its content is the input.
MainReadUsage ==
  /\ pc = "main_read_usage"
  /\ \E t \in UsageMainTables : usage_df' = t /\ usage_df0' = t
  /\ reads' = Append(reads, "usage")
  /\ pc' = "hk_validate"
  /\ UNCHANGED << entry, hk_exists, usage_exists, top_n, out_dir, files, hk_df,
                  hk_df0, error, hk, housekeeping, ru, room_usage, report, rot,
                  callouts, session >>

\* Line 989: build_html_report renders the page and writes report.html.
BuildHtml ==
  /\ pc = "html"
  /\ report' = html_report(housekeeping, room_usage)
  /\ files' = files \cup {"report.html"}
  /\ pc' = "main_print"
  /\ UNCHANGED << entry, hk_exists, usage_exists, top_n, out_dir, reads, hk_df,
                  usage_df, hk_df0, usage_df0, error, hk, housekeeping, ru,
                  room_usage, rot,
                  callouts, session >>

\* Lines 991-995: the listing of the output directory is printed.
MainPrint ==
  /\ pc = "main_print"
  /\ pc' = "done"
  /\ UNCHANGED << entry, hk_exists, usage_exists, top_n, out_dir, files, reads,
                  hk_df, usage_df, hk_df0, usage_df0, error, hk, housekeeping,
                  ru, room_usage, report, rot,
                  callouts, session >>

NextMain ==
  \/ MainCheckHk
  \/ MainCheckUsage
  \/ MainMkdir
  \/ MainReadHk
  \/ MainReadUsage
  \/ BuildHtml
  \/ MainPrint

(***************************************************************************)
(* The rate classifier on its own.                                         *)
(***************************************************************************)
\* Lines 336-350 for one user: the rounded rate, then its label.
Classify ==
  /\ pc = "classify"
  /\ LET rate == room_uniqueness_rate(rot.unique_rooms, rot.total_actions)
     IN rot' = [ unique_rooms |-> rot.unique_rooms,
                 total_actions |-> rot.total_actions,
                 room_uniqueness_rate |-> rate,
                 rotation_quality |-> classify_rotation(rate) ]
  /\ pc' = "done"
  /\ UNCHANGED << entry, hk_exists, usage_exists, top_n, out_dir, files, reads,
                  hk_df, usage_df, hk_df0, usage_df0, error, hk, housekeeping,
                  ru, room_usage, report, callouts, session >>

(***************************************************************************)
(* Specifications.                                                         *)
(***************************************************************************)
EmptyTable == DF(<<>>, <<>>)

\* What every run starts with, whatever is called.
Fresh ==
  /\ files = {}
  /\ reads = <<>>
  /\ error = NoError
  /\ hk = Empty
  /\ ru = Empty
  /\ housekeeping = None
  /\ room_usage = None
  /\ report = None

\* main(): the paths may or may not exist; nothing is read or written yet.
Init ==
  /\ entry = "main"
  /\ pc = "main_check_hk"
  /\ hk_exists \in BOOLEAN
  /\ usage_exists \in BOOLEAN
  /\ top_n \in {1, 10}
  /\ out_dir = FALSE
  /\ hk_df = EmptyTable /\ hk_df0 = EmptyTable
  /\ usage_df = EmptyTable /\ usage_df0 = EmptyTable
  /\ rot = None
  /\ callouts = NoCall
  /\ session = NoSession
  /\ Fresh

Next == NextMain \/ NextHk \/ NextRu

Spec == Init /\ [][Next]_vars

\* A direct call of build_housekeeping_section(df, out_dir, top_n).
InitHkCall ==
  /\ entry = "build_housekeeping_section"
  /\ pc = "hk_validate"
  /\ hk_exists = TRUE /\ usage_exists = TRUE
  /\ top_n \in TopNs
  /\ out_dir = TRUE
  /\ hk_df \in HkCallTables /\ hk_df0 = hk_df
  /\ usage_df = EmptyTable /\ usage_df0 = EmptyTable
  /\ rot = None
  /\ callouts = NoCall
  /\ session = NoSession
  /\ Fresh

\* A direct call of build_room_usage_section(df, out_dir, top_n).
InitRuCall ==
  /\ entry = "build_room_usage_section"
  /\ pc = "ru_validate"
  /\ hk_exists = TRUE /\ usage_exists = TRUE
  /\ top_n \in TopNs
  /\ out_dir = TRUE
  /\ usage_df \in UsageCallTables /\ usage_df0 = usage_df
  /\ hk_df = EmptyTable /\ hk_df0 = EmptyTable
  /\ rot = None
  /\ callouts = NoCall
  /\ session = NoSession
  /\ Fresh

InitSections == InitHkCall \/ InitRuCall

NextSections == NextHk \/ NextRu

\* The two section builders called on their own, with any table.
SpecSections == InitSections /\ [][NextSections]_vars

\* The classifier applied to one user's counts <<unique_rooms,
\* total_actions>> (1 <= unique <= total): every pair up to MaxActions
\* actions, and the pairs of a user with 2001 actions who touched nearly
\* every room once.
InitClassify ==
  /\ entry = "classify_rotation"
  /\ pc = "classify"
  /\ hk_exists = TRUE /\ usage_exists = TRUE
  /\ top_n = 10
  /\ out_dir = FALSE
  /\ hk_df = EmptyTable /\ hk_df0 = EmptyTable
  /\ usage_df = EmptyTable /\ usage_df0 = EmptyTable
  /\ \E p \in {q \in (1..MaxActions) \X (1..MaxActions) : q[1] <= q[2]}
               \cup {<<u, 2001>> : u \in 1999..2001} :
       rot = [unique_rooms |-> p[1], total_actions |-> p[2]]
  /\ callouts = NoCall
  /\ session = NoSession
  /\ Fresh

NextClassify == Classify

SpecClassify == InitClassify /\ [][NextClassify]_vars

(***************************************************************************)
(* rotation_callouts (nested in build_html_report), called on its own.     *)
(***************************************************************************)
\* What may be passed as uni_df, or held under uniqueness_by_user: None, a
\* table (the table without rows included): the rotation tables of the logs
\* of at most MaxRotationRows rows.
RotationArgs ==
  LET RotationTables ==
        { hk_uniqueness_by_user(HkDerive(NormalizeCols(t, HkRequired))) :
            t \in FullTables(HkRequired, HkRowSet, MaxRotationRows) }
  IN {None} \cup RotationTables

\* uni_df is None or uni_df.empty
NoRotationData(uni_df) == IF uni_df = None THEN TRUE ELSE IsEmpty(uni_df)

\* The argument of the innermost active call.
TopArg == callouts.stack[Len(callouts.stack)]

\* Lines 710-711: None or an empty table returns the "no rotation data"
\* paragraph to the caller.
CalloutsNoData ==
  /\ pc = "rc_call"
  /\ NoRotationData(TopArg)
  /\ LET rest == SubSeq(callouts.stack, 1, Len(callouts.stack) - 1)
     IN /\ callouts' = [stack |-> rest, result |-> [nodata |-> TRUE]]
        /\ pc' = IF rest = <<>> THEN "done" ELSE "rc_return"
  /\ UNCHANGED << entry, hk_exists, usage_exists, top_n, out_dir, files, reads,
                  hk_df, usage_df, hk_df0, usage_df0, error, hk, housekeeping,
                  ru, room_usage, report, rot, session >>

\* Lines 713-731: for a table with rows, uni_df is read again from the
\* payload and rotation_callouts is called with it.
CalloutsRecurse ==
  /\ pc = "rc_call"
  /\ ~NoRotationData(TopArg)
  /\ Len(callouts.stack) < MaxFrames
  /\ callouts' = [callouts EXCEPT
                    !.stack = Append(@, Get(housekeeping, "uniqueness_by_user"))]
  /\ UNCHANGED << pc, entry, hk_exists, usage_exists, top_n, out_dir, files,
                  reads, hk_df, usage_df, hk_df0, usage_df0, error, hk,
                  housekeeping, ru, room_usage, report, rot, session >>

\* Line 731 with the stack full: the call raises RecursionError.
CalloutsOverflow ==
  /\ pc = "rc_call"
  /\ ~NoRotationData(TopArg)
  /\ Len(callouts.stack) >= MaxFrames
  /\ error' = [type |-> "RecursionError", text |-> "maximum recursion depth exceeded",
               missing |-> <<>>]
  /\ pc' = "raised"
  /\ UNCHANGED << entry, hk_exists, usage_exists, top_n, out_dir, files, reads,
                  hk_df, usage_df, hk_df0, usage_df0, hk, housekeeping, ru,
                  room_usage, report, rot, callouts, session >>

\* Lines 732-748: the inner call has returned; the caller renders the table
\* it read from the payload and returns the grid of chart, callouts, table.
CalloutsReturn ==
  /\ pc = "rc_return"
  /\ LET rest == SubSeq(callouts.stack, 1, Len(callouts.stack) - 1)
         uni_df == Get(housekeeping, "uniqueness_by_user")
         uni_chart == Get(housekeeping, "uniqueness_chart")
     IN /\ callouts' =
             [ stack |-> rest,
               result |-> [ nodata |-> FALSE,
                            uni_chart_html |-> uni_chart,
                            rotation_callouts_html |-> callouts.result,
                            rotation_table_html |->
                              df_to_html_table(uni_df, MaxTableRows) ] ]
        /\ pc' = IF rest = <<>> THEN "done" ELSE "rc_return"
  /\ UNCHANGED << entry, hk_exists, usage_exists, top_n, out_dir, files, reads,
                  hk_df, usage_df, hk_df0, usage_df0, error, hk, housekeeping,
                  ru, room_usage, report, rot, session >>

\* rotation_callouts(uni_df) with the payload `housekeeping` in scope.
InitCallouts ==
  /\ entry = "rotation_callouts"
  /\ pc = "rc_call"
  /\ hk_exists = TRUE /\ usage_exists = TRUE
  /\ top_n = 10
  /\ out_dir = TRUE
  /\ hk_df = EmptyTable /\ hk_df0 = EmptyTable
  /\ usage_df = EmptyTable /\ usage_df0 = EmptyTable
  /\ rot = None
  /\ files = {} /\ reads = <<>> /\ error = NoError
  /\ hk = Empty /\ ru = Empty
  /\ room_usage = None /\ report = None
  /\ LET \* the payloads build_html_report may close over: with the rotation
         \* chart, and with or without a value under uniqueness_by_user
         chart == ("uniqueness_chart" :>
                     << "username_room_rotation_scatter.png",
                        "Room rotation efficiency (lower = repeatedly working same rooms)" >>)
     IN housekeeping \in
          {chart} \cup {("uniqueness_by_user" :> u) @@ chart : u \in RotationArgs}
  /\ \E u \in RotationArgs : callouts = [stack |-> <<u>>, result |-> None]
  /\ session = NoSession

NextCallouts ==
  \/ CalloutsNoData
  \/ CalloutsRecurse
  \/ CalloutsOverflow
  \/ CalloutsReturn

SpecCallouts == InitCallouts /\ [][NextCallouts]_vars

(***************************************************************************)
(* sessionID.main: the export session and its request callback.            *)
(***************************************************************************)
\* The lower-case form of a character (re.I compares without case).
Lower(c) ==
  LET UpperLetters ==
        << "A", "B", "C", "D", "E", "F", "G", "H", "I", "J", "K", "L", "M",
           "N", "O", "P", "Q", "R", "S", "T", "U", "V", "W", "X", "Y", "Z" >>
      LowerLetters ==
        << "a", "b", "c", "d", "e", "f", "g", "h", "i", "j", "k", "l", "m",
           "n", "o", "p", "q", "r", "s", "t", "u", "v", "w", "x", "y", "z" >>
  IN IF \E i \in 1..26 : UpperLetters[i] = c
     THEN LowerLetters[CHOOSE i \in 1..26 : UpperLetters[i] = c]
     ELSE c

\* The literal part of INSTANCE_RE, in lower case.
InstanceKey ==
  << "i", "n", "s", "t", "a", "n", "c", "e", "i", "d", "=" >>

\* {32}: the number of hex digits INSTANCE_RE asks for.
InstanceIdLen == 32

\* Whether INSTANCE_RE matches the text url at position i.
MatchesAt(url, i) ==
  LET \* [0-9a-f] under re.I
      IsHex(c) == IsDigit(c) \/ Lower(c) \in {"a", "b", "c", "d", "e", "f"}
  IN /\ i + Len(InstanceKey) + InstanceIdLen - 1 <= Len(url)
     /\ \A k \in 1..Len(InstanceKey) : Lower(url[i + k - 1]) = InstanceKey[k]
     /\ \A k \in 1..InstanceIdLen : IsHex(url[i + Len(InstanceKey) + k - 1])

\* INSTANCE_RE.search(url): the position of the leftmost match, 0 for None.
INSTANCE_RE_search(url) ==
  IF \E i \in 1..Len(url) : MatchesAt(url, i)
  THEN CHOOSE i \in 1..Len(url) :
         MatchesAt(url, i) /\ \A j \in 1..(i - 1) : ~MatchesAt(url, j)
  ELSE 0

\* m.group(1) of the match at position m: the 32 digits as the URL has them.
Group1(url, m) ==
  SubSeq(url, m + Len(InstanceKey), m + Len(InstanceKey) + InstanceIdLen - 1)

\* A faulty variant of on_request: every matching request sets the value.
on_request_last_wins(value, url) ==
  LET m == INSTANCE_RE_search(url)
  IN IF m # 0 THEN Group1(url, m) ELSE value

\* on_request(req): instance_id["value"] after the callback ran on req.url.
on_request(value, url) ==
  LET m == INSTANCE_RE_search(url)
  IN IF m # 0 /\ value = NoText THEN Group1(url, m) ELSE value

\* export_url = f"{BASE}/Telerik.ReportViewer.axd?instanceID={iid}&optype=..."
export_url(iid) ==
  LET BASE ==
      << "h", "t", "t", "p", "s", ":", "/", "/", "d", "3", "0", "1", ".", "m",
      "s", "i", "c", "l", "o", "u", "d", "p", "m", ".", "c", "o", "m", "/",
      "R", "e", "p", "o", "r", "t", "s", "/", "R", "e", "p", "o", "r", "t",
      "s", ".", "a", "s", "p", "x" >>
  IN BASE \o
     << "/", "T", "e", "l", "e", "r", "i", "k", ".", "R", "e", "p", "o", "r",
        "t", "V", "i", "e", "w", "e", "r", ".", "a", "x", "d", "?", "i", "n",
        "s", "t", "a", "n", "c", "e", "I", "D", "=" >>
     \o iid \o
     << "&", "o", "p", "t", "y", "p", "e", "=", "E", "x", "p", "o", "r", "t",
        "&", "E", "x", "p", "o", "r", "t", "F", "o", "r", "m", "a", "t", "=",
        "C", "S", "V" >>

\* The request URLs of the browser traffic: a page without the key, the key
\* with 32 digits (lower case, mixed, upper case), with 31 digits, with a
\* digit that is not hex, and a second occurrence of the key that matches.
RequestUrls ==
  LET id_a == [i \in 1..32 |-> "a"]
      id_0f == [i \in 1..32 |-> IF i % 2 = 1 THEN "0" ELSE "f"]
      id_B == [i \in 1..32 |-> "B"]
      id_31 == [i \in 1..31 |-> "a"]
      axd == <<"/", "a", "x", "d", "?">>
      key_instanceID == <<"i", "n", "s", "t", "a", "n", "c", "e", "I", "D", "=">>
      key_INSTANCEID == <<"I", "N", "S", "T", "A", "N", "C", "E", "I", "D", "=">>
      u_page == <<"/", "R", "?", "L", "S", "I", "D", "=", "c", "1">>
      u_params_a == axd \o key_instanceID \o id_a \o <<"&", "o", "p">>
      u_doc_0f == axd \o key_instanceID \o id_0f
      u_upper_B == axd \o key_INSTANCEID \o id_B
      u_short == axd \o key_instanceID \o id_31 \o <<"&">>
      u_nothex == axd \o key_instanceID \o id_31 \o <<"g">>
      u_second_0f == u_short \o key_instanceID \o id_0f \o <<"0">>
  IN {u_page, u_params_a, u_doc_0f, u_upper_B, u_short, u_nothex, u_second_0f}

\* Line 40: `not instance_id["value"]` (None and "" are false).
NoInstanceId(value) == value = NoText \/ value = <<>>

\* A browser request reaches on_request while main is inside page.goto
\* (lines 35, 54), page.wait_for_timeout (line 38), the wait for the
\* download (line 55), download.save_as (line 57) or context.close (line 61).
SessionOnRequest ==
  /\ pc \in {"s_goto", "s_wait", "s_export", "s_download", "s_save_as", "s_close"}
  /\ Len(session.requests) < MaxRequests
  /\ \E url \in RequestUrls :
       session' = [session EXCEPT
                     !.instance_id = on_request(@, url),
                     !.requests = Append(@, url)]
  /\ UNCHANGED << pc, entry, hk_exists, usage_exists, top_n, out_dir, files,
                  reads, hk_df, usage_df, hk_df0, usage_df0, error, hk,
                  housekeeping, ru, room_usage, report, rot, callouts >>

\* Line 35: page.goto(REPORT_PAGE_URL) returns (network idle).
SessionGotoDone ==
  /\ pc = "s_goto"
  /\ pc' = "s_wait"
  /\ UNCHANGED << entry, hk_exists, usage_exists, top_n, out_dir, files, reads,
                  hk_df, usage_df, hk_df0, usage_df0, error, hk, housekeeping,
                  ru, room_usage, report, rot, callouts, session >>

\* Line 38: the wait is over.
SessionWaitDone ==
  /\ pc = "s_wait"
  /\ pc' = "s_check"
  /\ UNCHANGED << entry, hk_exists, usage_exists, top_n, out_dir, files, reads,
                  hk_df, usage_df, hk_df0, usage_df0, error, hk, housekeeping,
                  ru, room_usage, report, rot, callouts, session >>

\* Lines 40-47: without an instance id the run raises.
SessionRaise ==
  /\ pc = "s_check"
  /\ NoInstanceId(session.instance_id)
  /\ error' = [ type |-> "RuntimeError",
               text |-> "No instanceID seen in network traffic.",
               missing |-> <<>> ]
  /\ pc' = "raised"
  /\ UNCHANGED << entry, hk_exists, usage_exists, top_n, out_dir, files, reads,
                  hk_df, usage_df, hk_df0, usage_df0, hk, housekeeping, ru,
                  room_usage, report, rot, callouts, session >>

\* Lines 49-54: the export URL is built from the captured id and main enters
\* page.goto(export_url); the request itself is not yet sent.
SessionExport ==
  /\ pc = "s_check"
  /\ ~NoInstanceId(session.instance_id)
  /\ session' = [session EXCEPT !.export = export_url(session.instance_id)]
  /\ pc' = "s_export"
  /\ UNCHANGED << entry, hk_exists, usage_exists, top_n, out_dir, files, reads,
                  hk_df, usage_df, hk_df0, usage_df0, error, hk, housekeeping,
                  ru, room_usage, report, rot, callouts >>

\* Line 54: the request of the export URL is sent and reaches on_request as
\* any other request; requests delivered meanwhile come before or after it.
SessionExportRequest ==
  /\ pc = "s_export"
  /\ session' = [session EXCEPT
                   !.instance_id = on_request(@, session.export),
                   !.requests = Append(@, session.export)]
  /\ pc' = "s_download"
  /\ UNCHANGED << entry, hk_exists, usage_exists, top_n, out_dir, files, reads,
                  hk_df, usage_df, hk_df0, usage_df0, error, hk, housekeeping,
                  ru, room_usage, report, rot, callouts >>

\* Lines 53-56: the download has started, the expect_download block ends
\* and main enters download.save_as.
SessionDownload ==
  /\ pc = "s_download"
  /\ pc' = "s_save_as"
  /\ UNCHANGED << entry, hk_exists, usage_exists, top_n, out_dir, files, reads,
                  hk_df, usage_df, hk_df0, usage_df0, error, hk, housekeeping,
                  ru, room_usage, report, rot, callouts, session >>

\* Lines 57-61: the file is written, save_as returns and main enters
\* context.close().
SessionSave ==
  /\ pc = "s_save_as"
  /\ files' = files \cup {"report_{ts}.csv"}
  /\ pc' = "s_close"
  /\ UNCHANGED << entry, hk_exists, usage_exists, top_n, out_dir, reads, hk_df,
                  usage_df, hk_df0, usage_df0, error, hk, housekeeping, ru,
                  room_usage, report, rot, callouts, session >>

\* Line 61: context.close() returns.
SessionClose ==
  /\ pc = "s_close"
  /\ pc' = "done"
  /\ UNCHANGED << entry, hk_exists, usage_exists, top_n, out_dir, files, reads,
                  hk_df, usage_df, hk_df0, usage_df0, error, hk, housekeeping,
                  ru, room_usage, report, rot, callouts, session >>

\* sessionID.main() after page.on("request", on_request): exports/ exists,
\* no id is captured, no request was seen.
InitSession ==
  /\ entry = "sessionID.main"
  /\ pc = "s_goto"
  /\ hk_exists = TRUE /\ usage_exists = TRUE
  /\ top_n = 10
  /\ out_dir = TRUE
  /\ hk_df = EmptyTable /\ hk_df0 = EmptyTable
  /\ usage_df = EmptyTable /\ usage_df0 = EmptyTable
  /\ rot = None
  /\ callouts = NoCall
  /\ session = NoSession
  /\ Fresh

NextSession ==
  \/ SessionOnRequest
  \/ SessionGotoDone
  \/ SessionWaitDone
  \/ SessionRaise
  \/ SessionExport
  \/ SessionExportRequest
  \/ SessionDownload
  \/ SessionSave
  \/ SessionClose

SpecSession == InitSession /\ [][NextSession]_vars

(***************************************************************************)
(* Properties.                                                             *)
(***************************************************************************)
\* The required columns a table lacks.
Absent(required, df) == {c \in Range(required) : c \notin ColSet(df)}

\* C1: when a run of main aborts with the schema error (a required column
\* is missing from either table), no output file has been written.
C1_NoFileOnSchemaError ==
  (entry = "main" /\ pc = "raised" /\ error.type = "ValueError") => files = {}

\* C2: a table lacking required columns makes build_housekeeping_section
\* and build_room_usage_section fail with an error that lists exactly all
\* the absent required columns, each once, and the failure comes before any
\* cell is normalized, any column is derived or anything is computed.
C2_SchemaErrorListsAllMissing ==
  /\ (entry = "build_housekeeping_section" /\ pc # "hk_validate"
      /\ Absent(HkRequired, hk_df0) # {})
       => /\ pc = "raised"
          /\ error.type = "ValueError"
          /\ Range(error.missing) = Absent(HkRequired, hk_df0)
          /\ Len(error.missing) = Cardinality(Absent(HkRequired, hk_df0))
          /\ hk_df = hk_df0
          /\ hk = Empty /\ files = {}
  /\ (entry = "build_room_usage_section" /\ pc # "ru_validate"
      /\ Absent(UsageRequired, usage_df0) # {})
       => /\ pc = "raised"
          /\ error.type = "ValueError"
          /\ Range(error.missing) = Absent(UsageRequired, usage_df0)
          /\ Len(error.missing) = Cardinality(Absent(UsageRequired, usage_df0))
          /\ usage_df = usage_df0
          /\ ru = Empty /\ files = {}
  /\ (pc = "raised" /\ entry = "build_housekeeping_section")
       => Absent(HkRequired, hk_df0) # {}
  /\ (pc = "raised" /\ entry = "build_room_usage_section")
       => Absent(UsageRequired, usage_df0) # {}

\* C2 happens: a table with a row and two absent columns has been refused.
C2_Witness ==
  /\ entry = "build_housekeeping_section"
  /\ pc = "raised"
  /\ Cardinality(Absent(HkRequired, hk_df0)) >= 2
  /\ Len(hk_df0.rows) >= 1

\* Sum of the `rows` counter over the groups of a view (no groups: 0).
ViewRowsSum(view) ==
  IF view = None THEN 0
  ELSE SumSeq([j \in 1..Len(view.rows) |-> view.rows[j].rows])

\* The grouping views have been computed.
HkViewsDone == entry = "build_housekeeping_section" /\ "by_user" \in DOMAIN hk

\* C3 as stated: in every grouping view, by_day included, the `rows`
\* counters add up to the number of rows of the fact table.
C3_EveryViewPartitions ==
  HkViewsDone =>
    \A v \in {"by_day", "by_room_type", "by_hk_after", "by_user"} :
      ViewRowsSum(hk[v]) = Len(hk_df.rows)

\* C3 amended: the `rows` counters of by_room_type, by_hk_after and by_user
\* add up to the number of rows of the fact table; by_day exists exactly when
\* some row has a parsed day, and its counters add up to the number of rows
\* with a parsed day (rows with an absent day are in no by_day group).
C3_GroupingPartitions ==
  HkViewsDone =>
    /\ \A v \in {"by_room_type", "by_hk_after", "by_user"} :
         ViewRowsSum(hk[v]) = Len(hk_df.rows)
    /\ (hk["by_day"] = None)
         <=> (\A i \in 1..Len(hk_df.rows) : hk_df.rows[i]["Day"] = NaT)
    /\ ViewRowsSum(hk["by_day"])
         = Cardinality({i \in 1..Len(hk_df.rows) : hk_df.rows[i]["Day"] # NaT})

\* C3 happens: by_day was built from a table in which a day is absent and
\* two rows share a room and a user.
C3_Witness ==
  /\ HkViewsDone
  /\ hk["by_day"] # None
  /\ \E i \in 1..Len(hk_df.rows) : hk_df.rows[i]["Day"] = NaT
  /\ \E i, j \in 1..Len(hk_df.rows) :
       /\ i # j
       /\ hk_df.rows[i]["Room Number"] = hk_df.rows[j]["Room Number"]
       /\ hk_df.rows[i]["Username"] = hk_df.rows[j]["Username"]

\* The band of the exact rate u / t: below 1/5, 2/5, 3/5, or above.
ExactBand(u, t) ==
  IF 5 * u < t THEN "Very Low (likely not rotating)"
  ELSE IF 5 * u < 2 * t THEN "Low"
  ELSE IF 5 * u < 3 * t THEN "Moderate"
  ELSE "High (good rotation)"

\* C4: the rotation_quality label is the band of the exact rate
\* unique_rooms / total_actions (lower edge inclusive, upper edge exclusive).
C4_LabelOfExactRate ==
  (entry = "classify_rotation" /\ pc = "done")
    => rot.rotation_quality = ExactBand(rot.unique_rooms, rot.total_actions)

\* Visits of a user to a room in the normalized table.
Visits(df, user, room) ==
  Cardinality({i \in 1..Len(df.rows) :
                 df.rows[i]["Username"] = user /\ df.rows[i]["Room Number"] = room})

\* Sum over the rooms of the squared visit counts of a user.
RECURSIVE SumSquares(_, _, _)
SumSquares(df, user, rooms) ==
  IF rooms = {} THEN 0
  ELSE LET r == CHOOSE x \in rooms : TRUE
       IN Visits(df, user, r) * Visits(df, user, r)
          + SumSquares(df, user, rooms \ {r})

\* C5: every rotation record carries room_randomness, equal to 1 minus the
\* sum over the user's rooms of (visits / total_actions)^2 (stated as the
\* fraction num / den).
C5_RecordCarriesRandomness ==
  (entry = "build_housekeeping_section" /\ "uniqueness_by_user" \in DOMAIN hk) =>
    \A j \in 1..Len(hk["uniqueness_by_user"].rows) :
      LET rec == hk["uniqueness_by_user"].rows[j]
          t == rec.total_actions
          rooms == {hk_df.rows[i]["Room Number"] : i \in 1..Len(hk_df.rows)}
      IN /\ "room_randomness" \in DOMAIN rec
         /\ rec["room_randomness"].num * t * t
              = rec["room_randomness"].den * (t * t - SumSquares(hk_df, rec.Username, rooms))

\* The usernames the callout view is meant to list: the records with
\* total_actions >= 10, ascending by rate then descending by total_actions,
\* the first 8.
ExpectedCallouts(uni_df) ==
  LET flagged == SelectSeq(uni_df.rows, LAMBDA r : r.total_actions >= MinCalloutActions)
      sorted == SortByKeys(flagged, [j \in 1..Len(flagged) |->
                  <<flagged[j].room_uniqueness_rate, 0 - flagged[j].total_actions>>])
      worst == Head_n(sorted, MaxCallouts)
  IN [j \in 1..Len(worst) |-> worst[j].Username]

\* C6: the callout view in the report lists the usernames with
\* total_actions >= 10, the first 8 in the callout order, and no others.
C6_ReportListsCallouts ==
  (entry = "main" /\ pc = "done")
    => report.callout_items = ExpectedCallouts(hk["uniqueness_by_user"])

\* The keys under which the housekeeping payload is to hold a table.
PayloadTableKeys ==
  {"by_day", "by_room_type", "by_hk_after", "by_user", "transition_matrix",
   "uniqueness_by_user"}

\* C7: the payload build_housekeeping_section returns holds a table under
\* each of the fixed keys, for every valid input table.
C7_PayloadHoldsEveryTable ==
  (entry = "build_housekeeping_section" /\ pc = "done")
    => \A k \in PayloadTableKeys : k \in DOMAIN housekeeping /\ housekeeping[k] # None

\* C8: in the room-usage by_room_type view, avg_nights_per_room is the
\* group's total_nights divided by its number of distinct rooms (2 decimals).
C8_AvgIsTotalOverRooms ==
  (entry = "build_room_usage_section" /\ "by_room_type" \in DOMAIN ru) =>
    \A j \in 1..Len(ru["by_room_type"].rows) :
      LET g == ru["by_room_type"].rows[j]
      IN g.avg_nights_per_room = SeriesRound(FDiv(g.total_nights, g.rooms), 100)

\* C9: after the coercion of Number of Nights every row holds a number >= 0.
C9_NightsNonNegative ==
  (entry = "build_room_usage_section"
   /\ pc \in {"ru_kpis", "ru_views", "ru_charts", "ru_section", "done"}) =>
    \A i \in 1..Len(usage_df.rows) : ~usage_df.rows[i]["Number of Nights"].neg

\* A cell that is missing, empty or blanks only.
IsBlank(x) == isna(x) \/ \A i \in 1..Len(x) : x[i] = " "

NameCols == {"Housekeeper Before", "Housekeeper After", "Username"}

\* The table has been normalized.
HkNormalized ==
  entry = "build_housekeeping_section" /\ pc \notin {"hk_validate", "hk_normalize", "raised"}

\* The number of rows of a view's group keyed k (0 when there is none).
GroupRows(view, col, k) ==
  SumSeq([j \in 1..Len(view.rows) |->
            IF view.rows[j][col] = k THEN view.rows[j].rows ELSE 0])

\* C10 as stated: after normalization a missing or blank Housekeeper Before,
\* Housekeeper After or Username holds the literal "Unknown".
C10_BlankBecomesUnknown ==
  HkNormalized =>
    \A i \in 1..Len(hk_df.rows) : \A c \in NameCols :
      IsBlank(hk_df0.rows[i][c]) => hk_df.rows[i][c] = <<"U", "n", "k", "n", "o", "w", "n">>

\* C10 amended: after normalization a missing or blank Housekeeper Before,
\* Housekeeper After or Username holds the empty text "" (and no other row
\* does), so that all such rows fall in the one group keyed "" of the
\* by_hk_after and by_user views.
C10_BlankBecomesEmpty ==
  /\ HkNormalized =>
       \A i \in 1..Len(hk_df.rows) : \A c \in NameCols :
         IsBlank(hk_df0.rows[i][c]) <=> hk_df.rows[i][c] = t_empty
  /\ HkViewsDone =>
       /\ GroupRows(hk["by_user"], "Username", t_empty)
            = Cardinality({i \in 1..Len(hk_df0.rows) : IsBlank(hk_df0.rows[i]["Username"])})
       /\ GroupRows(hk["by_hk_after"], "Housekeeper After", t_empty)
            = Cardinality({i \in 1..Len(hk_df0.rows) :
                             IsBlank(hk_df0.rows[i]["Housekeeper After"])})
       /\ Cardinality({j \in 1..Len(hk["by_user"].rows) :
                         hk["by_user"].rows[j]["Username"] = t_empty}) <= 1

\* C10 happens: a missing Username and a blanks-only Username of two rows
\* were normalized and grouped.
C10_Witness ==
  /\ HkViewsDone
  /\ \E i, j \in 1..Len(hk_df0.rows) :
       /\ hk_df0.rows[i]["Username"] = NaN
       /\ hk_df0.rows[j]["Username"] = t_blank2
  /\ GroupRows(hk["by_user"], "Username", t_empty) >= 2

\* A text "YYYY-MM-DD HH:MM" naming a day of the calendar: a date that is not
\* in the format month/day/year but that free-form date parsing reads.
IsIsoTimestamp(s) ==
  IF isna(s) THEN FALSE
  ELSE
  LET w == Words(s) IN
  IF Len(w) # 2 THEN FALSE
  ELSE
  LET p == Split(w[1], "-")
      hm == Split(w[2], ":") IN
  /\ Len(p) = 3 /\ Len(hm) = 2
  /\ AllDigits(p[1]) /\ Len(p[1]) = 4
  /\ AllDigits(p[2]) /\ Len(p[2]) <= 2 /\ AllDigits(p[3]) /\ Len(p[3]) <= 2
  /\ AllDigits(hm[1]) /\ Len(hm[1]) <= 2 /\ AllDigits(hm[2]) /\ Len(hm[2]) <= 2
  /\ DecVal(p[2]) \in 1..12
  /\ DecVal(p[3]) \in 1..DaysInMonth(DecVal(p[1]), DecVal(p[2]))
  /\ DecVal(hm[1]) \in 0..23 /\ DecVal(hm[2]) \in 0..59

\* The derived columns and the KPI table of a direct call have been computed.
HkKpisDone == entry = "build_housekeeping_section" /\ "overall" \in DOMAIN hk

\* C11: every row whose Date is in the primary format or is a free-form
\* readable date has a present Day and counts in the date parse success rate.
C11_FreeFormDateGivesDay ==
  HkKpisDone =>
    LET n == Len(hk_df.rows)
        readable == {i \in 1..n :
                       \/ ParseTimestamp(hk_df.rows[i]["Date"]) # NaT
                       \/ IsIsoTimestamp(hk_df.rows[i]["Date"])}
    IN /\ \A i \in readable : hk_df.rows[i]["Day"] # NaT
       /\ n > 0 => hk["overall"].rows[1]["Date parse success rate"]
                     = Round(Cardinality(readable), n, 10000)

\* The payload of a direct call to build_housekeeping_section is assembled.
HkSectionDone == entry = "build_housekeeping_section" /\ "section" \in DOMAIN hk

\* Sum of all cells of a transition table.
CellSum(tm) ==
  SumSeq([i \in 1..Len(tm.rows) |-> SumSeq(tm.rows[i].counts)])

\* C12: the cells of the transition matrix add up to the number of rows of
\* the fact table, and the cell (b, a) is the number of rows with HSK Status
\* Before = b and HSK Status After = a.
C12_TransitionCountsRows ==
  HkSectionDone =>
    LET tm == hk["section"].transition_matrix
        n == Len(hk_df.rows)
    IN /\ CellSum(tm) = n
       /\ \A i \in 1..Len(tm.rows) : \A j \in 1..Len(tm.rows[i].counts) :
            tm.rows[i].counts[j]
              = Cardinality({k \in 1..n :
                               /\ hk_df.rows[k]["HSK Status Before"] = tm.rows[i].before
                               /\ hk_df.rows[k]["HSK Status After"]
                                    = tm.columns[j + 1].label})

\* C12 happens: a matrix with a cell of two rows of one room and a cell of
\* a pair never observed.
C12_Witness ==
  /\ HkSectionDone
  /\ LET tm == hk["section"].transition_matrix
     IN /\ \E i \in 1..Len(tm.rows) : \E j \in 1..Len(tm.rows[i].counts) :
             tm.rows[i].counts[j] = 0
        /\ \E k, l \in 1..Len(hk_df.rows) :
             /\ k # l
             /\ hk_df.rows[k]["Room Number"] = hk_df.rows[l]["Room Number"]
             /\ hk_df.rows[k]["HSK_Transition"] = hk_df.rows[l]["HSK_Transition"]

\* C13: the recorded room_uniqueness_rate (in thousandths) lies in [0,1] and
\* is 1.0 exactly when the user touched every room exactly once, that is
\* when unique_rooms = total_actions.
C13_RateOneIffEveryRoomOnce ==
  (entry = "classify_rotation" /\ pc = "done") =>
    /\ rot.room_uniqueness_rate \in 0..1000
    /\ (rot.room_uniqueness_rate = 1000) <=> (rot.unique_rooms = rot.total_actions)

\* The table now has the columns and the cells of the table then; a cell of a
\* column of numbers is the same when it holds the number its text wrote.
SameTable(now, then, numeric) ==
  /\ now.columns = then.columns
  /\ Len(now.rows) = Len(then.rows)
  /\ \A i \in 1..Len(then.rows) : \A c \in Range(then.columns) :
       IF c \in numeric
       THEN /\ IsNumeric(then.rows[i][c])
            /\ now.rows[i][c] = to_numeric(then.rows[i][c])
       ELSE now.rows[i][c] = then.rows[i][c]

\* C14: when a direct call to build_housekeeping_section or
\* build_room_usage_section has returned, the caller's table is the table
\* that was handed over: same columns, same cells.
C14_InputTableUnchanged ==
  (pc = "done" /\ error = NoError) =>
    /\ entry = "build_housekeeping_section" => SameTable(hk_df, hk_df0, {})
    /\ entry = "build_room_usage_section"
         => SameTable(usage_df, usage_df0, {"Number of Nights"})

\* The views of a direct call to build_room_usage_section are computed.
RuViewsDone == entry = "build_room_usage_section" /\ "top_rooms" \in DOMAIN ru

\* The position in seq of its element x (the elements are distinct).
PosIn(seq, x) == CHOOSE k \in 1..Len(seq) : seq[k] = x

\* C15: with N = max(1, top_n), top_rooms holds min(N, groups) groups, each
\* with at least the nights of every group left out, and groups of equal
\* nights are kept and ordered as they were before the sort.
C15_TopRoomsStableCut ==
  RuViewsDone =>
    LET g == RoomGroups(usage_df)
        N == IF top_n >= 1 THEN top_n ELSE 1
        top == ru["top_rooms"].rows
        kept == Range(top)
        out == Range(g) \ kept
    IN /\ ru["top_n"] = N
       /\ Len(top) = (IF N < Len(g) THEN N ELSE Len(g))
       /\ kept \subseteq Range(g)
       /\ \A x \in kept : \A y \in out :
            ~LexLess(FKey(x["Number of Nights"]), FKey(y["Number of Nights"]))
       /\ \A k \in 1..(Len(top) - 1) :
            ~LexLess(FKey(top[k]["Number of Nights"]),
                     FKey(top[k + 1]["Number of Nights"]))
       /\ \A x \in kept : \A y \in Range(g) :
            (x["Number of Nights"] = y["Number of Nights"]
               /\ PosIn(g, y) < PosIn(g, x))
              => (y \in kept /\ PosIn(top, y) < PosIn(top, x))

\* The pieces of a text between separators "|", "/", ";" and ",", left to
\* right (the last piece is what follows the last separator).
RECURSIVE Pieces(_, _)
Pieces(s, piece) ==
  IF s = <<>> THEN <<piece>>
  ELSE IF Head(s) \in {"|", "/", ";", ","}
       THEN <<piece>> \o Pieces(Tail(s), <<>>)
       ELSE Pieces(Tail(s), Append(piece, Head(s)))

\* How often the trimmed token tok occurs in a features cell.
Mentions(cell, tok) ==
  IF isna(cell) THEN 0
  ELSE LET ps == Pieces(cell, <<>>)
       IN Cardinality({k \in 1..Len(ps) : Strip(ps[k]) = tok})

\* The non-empty trimmed tokens of all rows of a table.
TokensIn(df) ==
  UNION { IF isna(df.rows[i]["Orientation/Features"]) THEN {}
          ELSE LET ps == Pieces(df.rows[i]["Orientation/Features"], <<>>)
               IN {Strip(ps[k]) : k \in 1..Len(ps)} \ {<<>>}
          : i \in 1..Len(df.rows) }

\* Number of Nights summed over the occurrences of tok, in row order.
RECURSIVE TokenNights(_, _)
TokenNights(rows, tok) ==
  IF rows = <<>> THEN <<>>
  ELSE LET r == rows[Len(rows)]
       IN TokenNights(SubSeq(rows, 1, Len(rows) - 1), tok)
          \o [k \in 1..Mentions(r["Orientation/Features"], tok) |->
                r["Number of Nights"]]

\* by_feature has exactly one row per token of the table, with its mentions.
FeatureRowsMatch(df, view) ==
  /\ {view.rows[j].Feature : j \in 1..Len(view.rows)} = TokensIn(df)
  /\ Len(view.rows) = Cardinality(TokensIn(df))
  /\ \A j \in 1..Len(view.rows) :
       view.rows[j].mentions
         = SumSeq([i \in 1..Len(df.rows) |->
                     Mentions(df.rows[i]["Orientation/Features"], view.rows[j].Feature)])

\* C16: by_feature has one row per distinct token, mentions the number of
\* its occurrences, and total_nights the sum of Number of Nights over them
\* (the sum the "sum" aggregate gives, as by_room_type keeps it).
C16_FeatureTotalIsSum ==
  RuViewsDone =>
    /\ FeatureRowsMatch(usage_df, ru["feat_summary"])
    /\ \A j \in 1..Len(ru["feat_summary"].rows) :
         LET f == ru["feat_summary"].rows[j]
         IN FromInt(f.total_nights)
              = Kahan(TokenNights(usage_df.rows, f.Feature)).sumx

\* The rows of a view are in descending order of the counter first and, where
\* it is equal, of the counter second.
DescendingBy(view, first, second) ==
  \A j \in 1..(Len(view.rows) - 1) :
    \/ view.rows[j][first] > view.rows[j + 1][first]
    \/ /\ view.rows[j][first] = view.rows[j + 1][first]
       /\ view.rows[j][second] >= view.rows[j + 1][second]

\* C17: by_room_type and by_hk_after are in descending order of changed,
\* then rows; by_user is in descending order of rows, then changed.
C17_ViewsSortedDescending ==
  HkViewsDone =>
    /\ DescendingBy(hk["by_room_type"], "changed", "rows")
    /\ DescendingBy(hk["by_hk_after"], "changed", "rows")
    /\ DescendingBy(hk["by_user"], "rows", "changed")

\* C17 happens: in by_user a user with more rows and fewer changes comes
\* before one with fewer rows and more changes, and by_room_type has a
\* group of more changes before a group of fewer.
C17_Witness ==
  /\ HkViewsDone
  /\ \E j \in 1..(Len(hk["by_user"].rows) - 1) :
       /\ hk["by_user"].rows[j].rows > hk["by_user"].rows[j + 1].rows
       /\ hk["by_user"].rows[j].changed < hk["by_user"].rows[j + 1].changed
  /\ \E j \in 1..(Len(hk["by_room_type"].rows) - 1) :
       hk["by_room_type"].rows[j].changed > hk["by_room_type"].rows[j + 1].changed

\* C18: in a run of main with a path that does not exist, no file is ever
\* read, the output directory is never created and nothing is written: the
\* run is at one of the two checks or has raised the not-found error.
C18_NotFoundBeforeAnyRead ==
  (entry = "main" /\ ~(hk_exists /\ usage_exists)) =>
    /\ reads = <<>>
    /\ out_dir = FALSE
    /\ files = {}
    /\ hk_df = EmptyTable /\ usage_df = EmptyTable
    /\ pc \in {"main_check_hk", "main_check_usage", "raised"}
    /\ pc = "raised" => error.type = "FileNotFoundError"

\* C18 happens: the housekeeping path exists, the usage path does not, and
\* the run has raised.
C18_Witness ==
  /\ entry = "main"
  /\ hk_exists /\ ~usage_exists
  /\ pc = "raised"
  /\ error.type = "FileNotFoundError"

\* The fixed order of the housekeeping charts.
ChartOrder ==
  << "daily_volume.png", "daily_changes.png", "hsk_after_by_day.png",
     "top_housekeepers_after.png", "hsk_transition_heatmap.png" >>

\* A direct call to build_housekeeping_section has returned its payload.
HkReturned ==
  entry = "build_housekeeping_section" /\ pc = "done" /\ housekeeping # None

\* C19: the filenames of the chart inventory of the payload are those of the
\* fixed order, in that order and each at most once; the three daily charts
\* are all there when some row has a parsed day and none of them otherwise,
\* and the last two are always there.
C19_ChartInventoryInFixedOrder ==
  HkReturned =>
    LET charts == housekeeping.charts
        names == [i \in 1..Len(charts) |-> charts[i][1]]
        some_day == \E i \in 1..Len(hk_df.rows) : hk_df.rows[i]["Day"] # NaT
        daily == {ChartOrder[k] : k \in 1..3}
    IN /\ \A i \in 1..Len(names) : names[i] \in Range(ChartOrder)
       /\ \A i, j \in 1..Len(names) :
            i < j => PosIn(ChartOrder, names[i]) < PosIn(ChartOrder, names[j])
       /\ some_day => daily \subseteq Range(names)
       /\ ~some_day => daily \cap Range(names) = {}
       /\ {ChartOrder[4], ChartOrder[5]} \subseteq Range(names)

\* C19 happens: a payload with all five charts for a table in which one row
\* has a parsed day and another has none.
C19_Witness ==
  /\ HkReturned
  /\ \E i, j \in 1..Len(hk_df.rows) :
       hk_df.rows[i]["Day"] # NaT /\ hk_df.rows[j]["Day"] = NaT
  /\ Len(housekeeping.charts) = 5

\* C20: a call of rotation_callouts never runs out of stack, and when it is
\* over it has returned an HTML string.
C20_CalloutsTerminate ==
  entry = "rotation_callouts" =>
    /\ pc # "raised"
    /\ pc = "done" => callouts.result # None

\* The id of the first request of reqs that INSTANCE_RE matches (None when
\* it matches none).
FirstCaptured(reqs) ==
  LET hits == {k \in 1..Len(reqs) : INSTANCE_RE_search(reqs[k]) # 0}
  IN IF hits = {} THEN NoText
     ELSE LET k == CHOOSE h \in hits : \A g \in hits : h <= g
          IN Group1(reqs[k], INSTANCE_RE_search(reqs[k]))

\* C21: the captured instanceID is that of the first matching request seen
\* so far (a later match never replaces it); the export URL is requested
\* only with a captured id, from which it is built; and a run that raised
\* saw no matching request and requested no export.
C21_FirstInstanceIdWins ==
  entry = "sessionID.main" =>
    /\ session.instance_id = FirstCaptured(session.requests)
    /\ session.export # NoText =>
         /\ session.instance_id # NoText
         /\ session.export = export_url(session.instance_id)
    /\ pc \in {"s_export", "s_download", "s_save_as", "s_close", "done"}
         => session.export # NoText
    /\ pc = "raised" =>
         /\ session.export = NoText
         /\ \A k \in 1..Len(session.requests) :
              INSTANCE_RE_search(session.requests[k]) = 0
         /\ error.type = "RuntimeError"

\* C21 happens: a request without id, then two matching requests with
\* different ids were seen, and the export was requested with the first id.
C21_Witness ==
  /\ entry = "sessionID.main"
  /\ pc = "done"
  /\ Len(session.requests) >= 4
  /\ INSTANCE_RE_search(session.requests[1]) = 0
  /\ INSTANCE_RE_search(session.requests[2]) # 0
  /\ INSTANCE_RE_search(session.requests[3]) # 0
  /\ FirstCaptured(<<session.requests[3]>>) # session.instance_id
  /\ session.export = export_url(FirstCaptured(<<session.requests[2]>>))

=============================================================================
